---- MODULE Spec2Model ----
(***************************************************************************)
(* The plugin evolution orchestrator of xova/: registry.py (catalogue and  *)
(* candidate filter), evolve.py (ranking, manifest verification, threshold *)
(* evaluation and the first-success-wins trial loop) and sandbox.py (timed *)
(* plugin execution).                                                      *)
(*                                                                         *)
(* Python dicts are TLA+ functions with a finite domain of string keys;    *)
(* a dict that keeps its iteration order where the code depends on it (the *)
(* registry) is a sequence of its values. Strings the code parses (the     *)
(* version) are sequences of one-character strings. Floats are integers:   *)
(* the metrics of the mock output in thousandths, clock readings in whole  *)
(* seconds or milliseconds.                                                *)
(***************************************************************************)
EXTENDS Integers, Sequences, FiniteSets, TLC

VARIABLES
    pc,        \* position of the run: which statement of the code is next
    arg,       \* the arguments of the pure function under test (function specs)
    ret,       \* its return value (function specs)
    registry,  \* evolve: registry = load_registry(PLUGINS), in iteration order
    policy,    \* evolve: policy = load_policy()
    argv,      \* __main__: sys.argv[1:]
    req,       \* evolve: the request document
    cands,     \* evolve: the ranked candidates
    idx,       \* evolve: position of `for cand in cands` (1-based)
    link,      \* evolve: position of `for link in policy.get("post_chain")`
    errors,    \* evolve: errors
    res,       \* evolve: res, the primary run_plugin result of this trial
    metrics,   \* evolve: metrics
    stdout,    \* what evolve printed (a sequence of JSON documents)
    rc,        \* the exit code of the process (-1 while running)
    calls,     \* history: every verify_manifest / run_plugin /
               \* _write_summaries call, in the order the run made them
    chain_ret  \* history: what the chain steps of this trial returned

vars == <<pc, arg, ret, registry, policy, argv, req, cands, idx, link, errors,
          res, metrics, stdout, rc, calls, chain_ret>>

evolveVars == <<registry, policy, argv, req, cands, idx, link, errors, res,
                metrics, stdout, rc, calls, chain_ret>>

-----------------------------------------------------------------------------
(* Python helpers *)

\* d.get(k, dflt)
Get(d, k, dflt) == IF k \in DOMAIN d THEN d[k] ELSE dflt

\* the empty dict {}
EmptyDict == [k \in {} |-> 0]

\* {**a, **b} / a.update(b): b's entries win
Update(a, b) == [k \in DOMAIN a \cup DOMAIN b |-> IF k \in DOMAIN b THEN b[k] ELSE a[k]]

\* m2 = d.copy(); m2.pop(k, None)
Pop(d, k) == [x \in DOMAIN d \ {k} |-> d[x]]

Range(s) == {s[i] : i \in DOMAIN s}

-----------------------------------------------------------------------------
(* evolve.py: rank_candidates *)

Digits == {"0", "1", "2", "3", "4", "5", "6", "7", "8", "9"}

DigitVal(c) ==
    CASE c = "0" -> 0 [] c = "1" -> 1 [] c = "2" -> 2 [] c = "3" -> 3
      [] c = "4" -> 4 [] c = "5" -> 5 [] c = "6" -> 6 [] c = "7" -> 7
      [] c = "8" -> 8 [] c = "9" -> 9

\* str.isdigit(): non-empty and every character a digit
IsDigit(p) == Len(p) > 0 /\ \A i \in DOMAIN p : p[i] \in Digits

\* int(p) of a string of decimal digits
RECURSIVE int(_)
int(p) == IF p = <<>> THEN 0
          ELSE 10 * int(SubSeq(p, 1, Len(p) - 1)) + DigitVal(p[Len(p)])

\* s.split("."): always at least one part; empty parts are kept
RECURSIVE Split(_)
Split(s) ==
    IF \A i \in DOMAIN s : s[i] # "."
    THEN <<s>>
    ELSE LET k == CHOOSE i \in DOMAIN s :
                      s[i] = "." /\ \A j \in 1..(i - 1) : s[j] # "."
         IN  <<SubSeq(s, 1, k - 1)>> \o Split(SubSeq(s, k + 1, Len(s)))

\* the default of x["manifest"].get("version", "0.0.0")
DefaultVersion == <<"0", ".", "0", ".", "0">>

\* vparts with the parts compared by their leading digit, as a comparison of
\* the strings would order them ("10" before "9")
vparts_leading_digit(x) ==
    LET s     == Get(x.manifest, "version", DefaultVersion)
        parts == Split(s)
    IN  [i \in DOMAIN parts |-> IF IsDigit(parts[i]) THEN DigitVal(parts[i][1]) ELSE 0]

\* vparts(x): the sort key
vparts(x) ==
    LET s     == Get(x.manifest, "version", DefaultVersion)
        parts == Split(s)
    IN  [i \in DOMAIN parts |-> IF IsDigit(parts[i]) THEN int(parts[i]) ELSE 0]

\* Python's tuple comparison a < b: the first differing component decides,
\* and a proper prefix is smaller
TupleLess(a, b) ==
    \/ \E i \in 1..Len(a) :
          /\ i <= Len(b)
          /\ a[i] < b[i]
          /\ \A j \in 1..(i - 1) : a[j] = b[j]
    \/ /\ Len(a) < Len(b)
       /\ \A j \in 1..Len(a) : a[j] = b[j]

\* one step of the stable descending sort: x goes after every element that
\* does not compare smaller than it (sorted(..., reverse=True) keeps the
\* input order of elements with equal keys)
RECURSIVE InsertDesc(_, _)
InsertDesc(sorted, x) ==
    IF sorted = <<>> THEN <<x>>
    ELSE IF TupleLess(vparts(Head(sorted)), vparts(x))
         THEN <<x>> \o sorted
         ELSE <<Head(sorted)>> \o InsertDesc(Tail(sorted), x)

RECURSIVE SortedDesc(_)
SortedDesc(s) ==
    IF s = <<>> THEN <<>>
    ELSE InsertDesc(SortedDesc(SubSeq(s, 1, Len(s) - 1)), s[Len(s)])

rank_candidates(cs, prefer) ==
    IF prefer = "highest_version" THEN SortedDesc(cs) ELSE cs

-----------------------------------------------------------------------------
(* registry.py: choose_candidates *)

\* the loop `for plugin_name, plugin_info in registry.items()` from entry i on
RECURSIVE ChooseFrom(_, _, _, _)
ChooseFrom(reg, i, api, capabilities) ==
    IF i > Len(reg) THEN <<>>
    ELSE LET plugin_info   == reg[i]
             manifest      == plugin_info.manifest
             plugin_apis   == Get(manifest, "apis", {})
             plugin_caps   == Get(manifest, "capabilities", {})
             required_caps == capabilities
             rest          == ChooseFrom(reg, i + 1, api, capabilities)
         IN  IF api \notin plugin_apis THEN rest
             ELSE IF ~(required_caps \subseteq plugin_caps) THEN rest
             ELSE <<plugin_info>> \o rest

\* choose_candidates demanding the capability sets to be equal
RECURSIVE ChooseExactCaps(_, _, _, _)
ChooseExactCaps(reg, i, api, capabilities) ==
    IF i > Len(reg) THEN <<>>
    ELSE LET rest == ChooseExactCaps(reg, i + 1, api, capabilities)
         IN  IF api \notin Get(reg[i].manifest, "apis", {}) THEN rest
             ELSE IF capabilities # Get(reg[i].manifest, "capabilities", {}) THEN rest
             ELSE <<reg[i]>> \o rest

choose_candidates_exact_caps(reg, api, capabilities) ==
    ChooseExactCaps(reg, 1, api, capabilities)

\* choose_candidates without the api check
RECURSIVE ChooseAnyApi(_, _, _)
ChooseAnyApi(reg, i, capabilities) ==
    IF i > Len(reg) THEN <<>>
    ELSE LET rest == ChooseAnyApi(reg, i + 1, capabilities)
         IN  IF ~(capabilities \subseteq Get(reg[i].manifest, "capabilities", {})) THEN rest
             ELSE <<reg[i]>> \o rest

choose_candidates_any_api(reg, api, capabilities) == ChooseAnyApi(reg, 1, capabilities)

choose_candidates(reg, api, capabilities) == ChooseFrom(reg, 1, api, capabilities)

-----------------------------------------------------------------------------
(* evolve.py: verify_manifest *)

\* A hex digest string: the content it is the SHA-256 of (SHA-256 is taken as
\* collision-free: two digests are equal iff their contents are) and the letter
\* case of its hex digits. "" is the string that is the digest of nothing.
HexDigest(content, case) == [of |-> content, case |-> case]

EmptyString == [of |-> EmptyDict, case |-> "empty"]

\* hashlib.sha256(json.dumps(m2, sort_keys=True, ...)).hexdigest(): lower case
sha256_manifest_without_sig(man) == HexDigest(Pop(man, "signature"), "lower")

\* verify_manifest accepting whatever signature is present
verify_manifest_any_signature(man) ==
    Get(man, "signature", EmptyString) # EmptyString

\* lines 30-35
verify_manifest(man) ==
    LET want == Get(man, "signature", EmptyString)
    IN  IF want = EmptyString THEN FALSE
        ELSE sha256_manifest_without_sig(man) = want

-----------------------------------------------------------------------------
(* evolve.py: passes_thresholds *)

\* A metric value of a reply: a JSON number (in thousandths) or a JSON string.
Num(n) == [num |-> TRUE, v |-> n]

Str(n) == [num |-> FALSE, v |-> n]

\* `for k, v in mx.items(): if k in metrics and metrics[k] > v: return False`
\* from item i on; mx is the dict's items in their order. Comparing a str
\* with a number raises TypeError.
RECURSIVE MaxLoop(_, _, _)
MaxLoop(m, mx, i) ==
    IF i > Len(mx) THEN "True"
    ELSE LET k == mx[i][1]
             v == mx[i][2]
         IN  IF k \notin DOMAIN m THEN MaxLoop(m, mx, i + 1)
             ELSE IF ~m[k].num THEN "TypeError"
             ELSE IF m[k].v > v THEN "False"
             ELSE MaxLoop(m, mx, i + 1)

\* `all(not (k in metrics and metrics[k] < v) for k, v in mn.items())`
RECURSIVE MinAll(_, _, _)
MinAll(m, mn, i) ==
    IF i > Len(mn) THEN "True"
    ELSE LET k == mn[i][1]
             v == mn[i][2]
         IN  IF k \notin DOMAIN m THEN MinAll(m, mn, i + 1)
             ELSE IF ~m[k].num THEN "TypeError"
             ELSE IF m[k].v < v THEN "False"
             ELSE MinAll(m, mn, i + 1)

\* passes_thresholds without the loop over the max bounds
passes_thresholds_min_only(m, thr) ==
    IF DOMAIN thr = {} THEN "True"
    ELSE MinAll(m, Get(thr, "min", <<>>), 1)

\* "True", "False", or "TypeError" when the call raises
passes_thresholds(m, thr) ==
    IF DOMAIN thr = {} THEN "True"
    ELSE LET mx == Get(thr, "max", <<>>)
             mn == Get(thr, "min", <<>>)
         IN  IF MaxLoop(m, mx, 1) # "True" THEN MaxLoop(m, mx, 1)
             ELSE MinAll(m, mn, 1)

-----------------------------------------------------------------------------
(* sandbox.py: run_plugin, create_mock_output *)

\* A file name is <<stem, extension>>.
NoScript == <<"", "">>

\* The script files present in a plugin's directory (the file system the run
\* finds): the directories of plugins/, and codex.sequence.nine2, which holds
\* a manifest and no script.
PluginDir(plugin_name) ==
    CASE plugin_name = "codex.sequence.nine" -> {<<"main", "py">>}
      [] plugin_name = "lucas_generator" -> {<<"main", "py">>}
      [] plugin_name = "codex.order_meter" -> {<<"analyze", "py">>}
      [] OTHER -> {}

\* the words of `"sequence" in plugin_name.lower()` etc. that a name contains
NameContains(plugin_name, word) ==
    CASE word = "sequence" -> plugin_name \in {"codex.sequence.nine", "codex.sequence.nine2"}
      [] word = "lucas" -> plugin_name \in {"lucas_generator"}
      [] word = "order_meter" -> plugin_name \in {"codex.order_meter"}
      [] OTHER -> FALSE

\* lines 22-34: the script that will be run, NoScript when none is found
ScriptPath(plugin_data) ==
    LET plugin_name == plugin_data.name
        dir         == PluginDir(plugin_data.path)
        script_name == Get(plugin_data.manifest, "script", <<"run", "py">>)
        alts        == << <<"main", "py">>, <<"plugin", "py">>, <<plugin_name, "py">> >>
    IN  IF script_name \in dir THEN script_name
        ELSE IF \E i \in 1..3 : alts[i] \in dir
             THEN alts[CHOOSE i \in 1..3 :
                          alts[i] \in dir /\ \A j \in 1..(i - 1) : alts[j] \notin dir]
             ELSE NoScript

OutPath(file) == <<"out", file>>

create_mock_output(plugin_name, params, output_dir) ==
    LET m == IF NameContains(plugin_name, "sequence") \/ NameContains(plugin_name, "lucas")
             THEN [order_k2 |-> Num(150), order_k3 |-> Num(80),
                   convergence_rate |-> Num(618), sequence_length |-> Num(11000)]
             ELSE IF NameContains(plugin_name, "order_meter")
             THEN [order_k2 |-> Num(120), order_k3 |-> Num(60),
                   entropy |-> Num(2140), complexity |-> Num(850)]
             ELSE [order_k2 |-> Num(110), order_k3 |-> Num(70)]
    IN  [status    |-> "completed",
         plugin    |-> plugin_name,
         artifacts |-> [sequence_wav |-> OutPath("sequence.wav"),
                        sequence_csv |-> OutPath("sequence.csv")],
         metrics   |-> m]

\* What the child process does: whether Popen could start it, whether it ran
\* past the time limit, its exit status and what it wrote to stdout.
Json(doc) == [json |-> TRUE, doc |-> doc, text |-> ""]

Raw(text) == [json |-> FALSE, doc |-> EmptyDict, text |-> text]

Child(spawned, timeout, returncode, out) ==
    [spawned |-> spawned, timeout |-> timeout, returncode |-> returncode, stdout |-> out]

Raised(what, plugin_name) == [raised |-> TRUE, e |-> [what |-> what, plugin |-> plugin_name]]

Returned(result) == [raised |-> FALSE, result |-> result]

\* run_plugin without the check of the exit status
run_plugin_ignoring_exit_status(plugin_data, params, output_dir, time_limit_s, child, execution_time) ==
    LET plugin_name == plugin_data.name
    IN  IF ScriptPath(plugin_data) = NoScript
        THEN Returned(create_mock_output(plugin_name, params, output_dir))
        ELSE IF ~child.spawned
        THEN Raised("execution failed", plugin_name)
        ELSE IF child.timeout
        THEN Raised("timed out", plugin_name)
        ELSE LET result == IF child.stdout.json
                           THEN child.stdout.doc
                           ELSE [status    |-> "completed",
                                 output    |-> child.stdout.text,
                                 artifacts |-> EmptyDict,
                                 metrics   |-> EmptyDict]
                 withm  == Update([metrics |-> EmptyDict], result)
             IN  Returned([withm EXCEPT !.metrics =
                              Update(@, [execution_time_s |-> Num(execution_time)])])

\* run_plugin failing on a stdout that is not JSON
run_plugin_strict_json(plugin_data, params, output_dir, time_limit_s, child, execution_time) ==
    LET plugin_name == plugin_data.name
    IN  IF ScriptPath(plugin_data) = NoScript
        THEN Returned(create_mock_output(plugin_name, params, output_dir))
        ELSE IF ~child.spawned
        THEN Raised("execution failed", plugin_name)
        ELSE IF child.timeout
        THEN Raised("timed out", plugin_name)
        ELSE IF child.returncode # 0
        THEN Raised("execution failed: failed with exit code", plugin_name)
        ELSE IF ~child.stdout.json
        THEN Raised("execution failed", plugin_name)
        ELSE Returned([Update([metrics |-> EmptyDict], child.stdout.doc) EXCEPT !.metrics =
                          Update(@, [execution_time_s |-> Num(execution_time)])])

\* run_plugin with the child's behaviour `child` and `execution_time` seconds
\* on the clock between Popen and the end of communicate()
run_plugin(plugin_data, params, output_dir, time_limit_s, child, execution_time) ==
    LET plugin_name == plugin_data.name
    IN  IF ScriptPath(plugin_data) = NoScript
        THEN Returned(create_mock_output(plugin_name, params, output_dir))
        ELSE IF ~child.spawned
        THEN Raised("execution failed", plugin_name)
        ELSE IF child.timeout
        THEN Raised("timed out", plugin_name)
        ELSE IF child.returncode # 0
        THEN Raised("execution failed: failed with exit code", plugin_name)
        ELSE LET result == IF child.stdout.json
                           THEN child.stdout.doc
                           ELSE [status    |-> "completed",
                                 output    |-> child.stdout.text,
                                 artifacts |-> EmptyDict,
                                 metrics   |-> EmptyDict]
                 withm  == Update([metrics |-> EmptyDict], result)
             IN  Returned([withm EXCEPT !.metrics =
                              Update(@, [execution_time_s |-> Num(execution_time)])])

-----------------------------------------------------------------------------
(* The plugins, policies and requests the runs are given *)

V(a, b, c) == <<a, ".", b, ".", c>>

\* manifest.json of each plugin directory, before signing
Unsigned(plugin_name) ==
    CASE plugin_name = "codex.sequence.nine" ->
           [name |-> plugin_name, version |-> V("1", "0", "0"),
            apis |-> {"nine"}, capabilities |-> {"audio", "csv"}]
      [] plugin_name = "codex.sequence.nine2" ->
           [name |-> plugin_name, version |-> V("2", "0", "0"),
            apis |-> {"nine"}, capabilities |-> {"audio"}, time_limit_s |-> 5]
      [] plugin_name = "lucas_generator" ->
           [name |-> plugin_name, version |-> <<"1", ".", "1", "0", ".", "0">>,
            apis |-> {"nine", "lucas"}, capabilities |-> {"audio", "csv", "math"}]
      [] plugin_name = "codex.order_meter" ->
           [name |-> plugin_name, version |-> V("0", "1", "0"),
            apis |-> {"order"}, capabilities |-> {"analysis"},
            script |-> <<"analyze", "py">>]

\* tools/sign_manifest.py: manifest["signature"] = sha256_manifest_without_sig(manifest)
sign_manifest(manifest) ==
    Update(manifest, [signature |-> sha256_manifest_without_sig(manifest)])

\* The manifests as load_registry reads them: nine and lucas_generator are
\* signed, nine2 was signed as 1.9.0 and its version edited afterwards,
\* order_meter is unsigned.
Manifest(plugin_name) ==
    CASE plugin_name \in {"codex.sequence.nine", "lucas_generator"} ->
           sign_manifest(Unsigned(plugin_name))
      [] plugin_name = "codex.sequence.nine2" ->
           [sign_manifest([Unsigned(plugin_name) EXCEPT !.version = V("1", "9", "0")])
               EXCEPT !.version = V("2", "0", "0")]
      [] OTHER -> Unsigned(plugin_name)

\* load_registry's plugin_info
PluginInfo(plugin_name) ==
    [name |-> plugin_name, path |-> plugin_name, manifest |-> Manifest(plugin_name)]

\* registry.get(name): None is the empty dict here, `if not dep` holds of both
RegistryGet(reg, plugin_name) ==
    IF \E i \in DOMAIN reg : reg[i].name = plugin_name
    THEN reg[CHOOSE i \in DOMAIN reg : reg[i].name = plugin_name]
    ELSE EmptyDict

Registries ==
    { <<PluginInfo("codex.sequence.nine"), PluginInfo("codex.sequence.nine2"),
        PluginInfo("lucas_generator"), PluginInfo("codex.order_meter")>>,
      <<PluginInfo("codex.order_meter"), PluginInfo("lucas_generator"),
        PluginInfo("codex.sequence.nine2"), PluginInfo("codex.sequence.nine")>>,
      <<PluginInfo("codex.sequence.nine2"), PluginInfo("codex.sequence.nine")>> }

Thresholds ==
    { EmptyDict,
      [min |-> << <<"order_k2", 100>> >>, max |-> << <<"latency_ms", 1500>> >>] }

PostChains ==
    { <<>>,
      << [plugin |-> "codex.analysis.order_meter"], [plugin |-> "codex.order_meter"] >> }

Policies ==
    { Update(sel, [security   |-> [require_signatures |-> sig],
                   limits     |-> [time_s |-> 15],
                   thresholds |-> thr,
                   post_chain |-> chain]) :
        sel \in {EmptyDict, [selection |-> [prefer |-> "highest_version"]]},
        sig \in BOOLEAN, thr \in Thresholds, chain \in PostChains }

Requests ==
    { [api |-> a, capabilities |-> c, params |-> [steps |-> 9]] :
        a \in {"nine", "unknown-kind"},
        c \in {{"audio"}, {"audio", "csv"}, {"midi"}} }

\* seconds a run_plugin call can take on the clock
MaxSeconds == 1

\* what a child process can do
OkReply ==
    Json([status |-> "ok", artifacts |-> [sequence_wav |-> OutPath("sequence.wav")],
          metrics |-> [order_k2 |-> Num(150), latency_ms |-> Num(7)]])

Replies ==
    { OkReply,
      Json([status |-> "ok", artifacts |-> EmptyDict,
            metrics |-> [order_k2 |-> Num(50)]]),
      Json([status |-> "ok", artifacts |-> EmptyDict,
            metrics |-> [order_k2 |-> Str(1)]]),
      Raw("done") }

\* a child that has started a process of its own
Forking(child) == Update(child, [forks |-> TRUE])

Children ==
    { Child(FALSE, FALSE, 0, Raw("")), Child(TRUE, TRUE, 0, Raw("")),
      Forking(Child(TRUE, TRUE, 0, Raw(""))) }
    \cup { Child(TRUE, FALSE, 1, OkReply) }
    \cup { Child(TRUE, FALSE, 0, r) : r \in Replies }

\* what the child of a chain step can do
ChainChildren ==
    { Child(TRUE, TRUE, 0, Raw("")),
      Child(TRUE, FALSE, 1, OkReply),
      Child(TRUE, FALSE, 0, OkReply),
      Child(TRUE, FALSE, 0, Json([status |-> "ok", artifacts |-> EmptyDict,
                                   metrics |-> [order_k2 |-> Num(50)]])) }

-----------------------------------------------------------------------------
(* evolve.py: __main__ and evolve *)

\* what a run_plugin call started: nothing when no script is found (the mock
\* output), else the child process
Process(plugin_data, child) ==
    IF ScriptPath(plugin_data) = NoScript THEN [mock |-> TRUE]
    ELSE [mock |-> FALSE, child |-> child]

\* an entry of the call history: the function called, for which stage of
\* which trial, on which plugin, with which time limit, and the seconds it took
\* (0 for a call that raised: the clock is read only after a return)
Call(op, stage, plugin_name, trial, time_limit_s, seconds) ==
    [op |-> op, stage |-> stage, plugin |-> plugin_name, trial |-> trial,
     time_limit_s |-> time_limit_s, seconds |-> seconds]

\* policy.get("selection", {}).get("prefer"): "None" for None
Prefer(pol) == Get(Get(pol, "selection", EmptyDict), "prefer", "None")

Names(cs) == [i \in DOMAIN cs |-> cs[i].name]

Init ==
    /\ pc = "main"
    /\ arg = <<>>
    /\ ret = <<>>
    /\ \/ /\ argv = <<>>
          /\ registry = <<>>
          /\ policy = EmptyDict
          /\ req = EmptyDict
       \/ /\ argv = <<"examples/request_nine.json">>
          /\ registry \in Registries
          /\ policy \in Policies
          /\ req \in Requests
    /\ cands = <<>>
    /\ idx = 0
    /\ link = 0
    /\ errors = <<>>
    /\ res = EmptyDict
    /\ metrics = EmptyDict
    /\ stdout = <<>>
    /\ rc = -1
    /\ calls = <<>>
    /\ chain_ret = <<>>

\* lines 174-177: no request path on the command line
Usage ==
    /\ pc = "main"
    /\ Len(argv) < 1
    /\ stdout' = Append(stdout, [status |-> "usage"])
    /\ rc' = 2
    /\ pc' = "exit"
    /\ UNCHANGED <<arg, ret, registry, policy, argv, req, cands, idx, link, errors,
                   res, metrics, calls, chain_ret>>

\* lines 79-106: load, select, rank; the no-match return
Select ==
    /\ pc = "main"
    /\ Len(argv) >= 1
    /\ LET api   == req.api
           caps  == Get(req, "capabilities", {})
           cs    == rank_candidates(choose_candidates(registry, api, caps), Prefer(policy))
       IN  /\ cands' = cs
           /\ IF cs = <<>>
              THEN /\ stdout' = Append(stdout,
                         [status |-> "failed",
                          errors |-> << [message |-> "No plugin matches",
                                         api |-> api, caps |-> caps] >>])
                   /\ rc' = 1
                   /\ pc' = "exit"
                   /\ idx' = idx
              ELSE /\ idx' = 1
                   /\ pc' = "for_cand"
                   /\ UNCHANGED <<stdout, rc>>
    /\ errors' = <<>>
    /\ UNCHANGED <<arg, ret, registry, policy, argv, req, link, res, metrics,
                   calls, chain_ret>>

\* Verify without the `continue`: the bad signature is recorded and the
\* candidate is run all the same
VerifyWithoutContinue ==
    /\ pc = "for_cand"
    /\ idx <= Len(cands)
    /\ LET cand     == cands[idx]
           required == Get(policy.security, "require_signatures", FALSE)
       IN  /\ calls' = IF required
                       THEN Append(calls, Call("verify_manifest", "verify", cand.name, idx, 0, 0))
                       ELSE calls
           /\ errors' = IF required /\ ~verify_manifest(cand.manifest)
                        THEN Append(errors, [plugin |-> cand.name,
                                             error |-> <<"bad-signature">>])
                        ELSE errors
    /\ pc' = "run"
    /\ UNCHANGED <<arg, ret, registry, policy, argv, req, cands, idx, link, res, metrics,
                   stdout, rc, chain_ret>>

\* Verify ending the run at the first bad signature
VerifyFailsFast ==
    /\ pc = "for_cand"
    /\ idx <= Len(cands)
    /\ LET cand     == cands[idx]
           required == Get(policy.security, "require_signatures", FALSE)
       IN  /\ calls' = IF required
                       THEN Append(calls, Call("verify_manifest", "verify", cand.name, idx, 0, 0))
                       ELSE calls
           /\ IF required /\ ~verify_manifest(cand.manifest)
              THEN /\ errors' = Append(errors, [plugin |-> cand.name,
                                                error |-> <<"bad-signature">>])
                   /\ stdout' = Append(stdout, [status |-> "failed", errors |-> errors'])
                   /\ rc' = 1
                   /\ pc' = "exit"
              ELSE /\ pc' = "run"
                   /\ UNCHANGED <<errors, stdout, rc>>
    /\ UNCHANGED <<arg, ret, registry, policy, argv, req, cands, idx, link, res, metrics,
                   chain_ret>>

\* Verify with a digest that pops the signature from the manifest itself, which
\* the registry entry and the candidate share
VerifyPopsSignature ==
    /\ pc = "for_cand"
    /\ idx <= Len(cands)
    /\ LET cand     == cands[idx]
           man      == cand.manifest
           required == Get(policy.security, "require_signatures", FALSE)
       IN  /\ calls' = IF required
                       THEN Append(calls, Call("verify_manifest", "verify", cand.name, idx, 0, 0))
                       ELSE calls
           /\ IF required /\ ~verify_manifest(man)
              THEN /\ errors' = Append(errors, [plugin |-> cand.name,
                                                error |-> <<"bad-signature">>])
                   /\ idx' = idx + 1
                   /\ pc' = "for_cand"
              ELSE /\ pc' = "run"
                   /\ UNCHANGED <<errors, idx>>
    /\ LET popped(e) == IF e.name = cands[idx].name /\ policy.security.require_signatures
                         THEN [e EXCEPT !.manifest = Pop(@, "signature")]
                         ELSE e
       IN  /\ registry' = [i \in DOMAIN registry |-> popped(registry[i])]
           /\ cands' = [i \in DOMAIN cands |-> popped(cands[i])]
    /\ UNCHANGED <<arg, ret, policy, argv, req, link, res, metrics, stdout, rc,
                   chain_ret>>

\* lines 107-111: the next candidate and its signature check
Verify ==
    /\ pc = "for_cand"
    /\ idx <= Len(cands)
    /\ LET cand     == cands[idx]
           man      == cand.manifest
           required == Get(policy.security, "require_signatures", FALSE)
       IN  /\ calls' = IF required
                       THEN Append(calls, Call("verify_manifest", "verify", cand.name, idx, 0, 0))
                       ELSE calls
           /\ IF required /\ ~verify_manifest(man)
              THEN /\ errors' = Append(errors, [plugin |-> cand.name,
                                                error |-> <<"bad-signature">>])
                   /\ idx' = idx + 1
                   /\ pc' = "for_cand"
              ELSE /\ pc' = "run"
                   /\ UNCHANGED <<errors, idx>>
    /\ UNCHANGED <<arg, ret, registry, policy, argv, req, cands, link, res, metrics,
                   stdout, rc, chain_ret>>

\* line 113
TimeLimit(man, pol) == Get(man, "time_limit_s", pol.limits.time_s)

\* Execute with one metrics dict for the whole run instead of one per trial
ExecuteKeepsMetrics ==
    /\ pc = "run"
    /\ \E child \in Children, seconds \in 1..MaxSeconds :
         LET cand         == cands[idx]
             time_limit_s == TimeLimit(cand.manifest, policy)
             r            == run_plugin(cand, req.params, "out", time_limit_s,
                                        child, seconds)
         IN  /\ calls' = Append(calls,
                             Update(Call("run_plugin", "primary", cand.name, idx,
                                         time_limit_s, IF r.raised THEN 0 ELSE seconds),
                                    [process |-> Process(cand, child)]))
             /\ IF r.raised
                THEN /\ errors' = Append(errors, [plugin |-> cand.name,
                                                  error |-> <<"exception", r.e>>])
                     /\ idx' = idx + 1
                     /\ pc' = "for_cand"
                     /\ UNCHANGED <<res, metrics, link, chain_ret>>
                ELSE /\ res' = r.result
                     /\ metrics' = Update(Update(metrics, Get(r.result, "metrics", EmptyDict)),
                                          [latency_ms |-> Num(1000 * seconds)])
                     /\ link' = 1
                     /\ chain_ret' = <<>>
                     /\ pc' = "for_link"
                     /\ UNCHANGED <<errors, idx>>
    /\ UNCHANGED <<arg, ret, registry, policy, argv, req, cands, stdout, rc>>

\* lines 113-124: the primary run
Execute ==
    /\ pc = "run"
    /\ \E child \in Children, seconds \in 1..MaxSeconds :
         LET cand         == cands[idx]
             man          == cand.manifest
             time_limit_s == TimeLimit(man, policy)
             r            == run_plugin(cand, req.params, "out", time_limit_s,
                                        child, seconds)
         IN  /\ calls' = Append(calls,
                             Update(Call("run_plugin", "primary", cand.name, idx,
                                         time_limit_s, IF r.raised THEN 0 ELSE seconds),
                                    [process |-> Process(cand, child)]))
             /\ IF r.raised
                THEN /\ errors' = Append(errors, [plugin |-> cand.name,
                                                  error |-> <<"exception", r.e>>])
                     /\ idx' = idx + 1
                     /\ pc' = "for_cand"
                     /\ UNCHANGED <<res, metrics, link, chain_ret>>
                ELSE /\ res' = r.result
                     /\ metrics' = Update(Get(r.result, "metrics", EmptyDict),
                                          [latency_ms |-> Num(1000 * seconds)])
                     /\ link' = 1
                     /\ chain_ret' = <<>>
                     /\ pc' = "for_link"
                     /\ UNCHANGED <<errors, idx>>
    /\ UNCHANGED <<arg, ret, registry, policy, argv, req, cands, stdout, rc>>

\* the parameters line 139 passes to every chain step
ChainParams == [wav |-> OutPath("sequence.wav"), k_values |-> <<2, 3>>]

\* ChainStep with a failed chain run rejecting the candidate
ChainStepFallsBack ==
    /\ pc = "for_link"
    /\ link <= Len(Get(policy, "post_chain", <<>>))
    /\ LET cand == cands[idx]
           l    == Get(policy, "post_chain", <<>>)[link]
           dep  == RegistryGet(registry, l.plugin)
       IN  IF DOMAIN dep = {}
           THEN /\ errors' = Append(errors, [plugin |-> cand.name,
                                             warning |-> <<"missing-post", l.plugin>>])
                /\ link' = link + 1
                /\ UNCHANGED <<metrics, calls, chain_ret, pc, idx>>
           ELSE \E child \in ChainChildren, seconds \in 1..MaxSeconds :
                  LET time_limit_s == TimeLimit(cand.manifest, policy)
                      ar           == run_plugin(dep, ChainParams, "out", time_limit_s,
                                                 child, seconds)
                  IN  /\ calls' = Append(calls,
                                      Update(Call("run_plugin", "chain", dep.name, idx,
                                                  time_limit_s,
                                                  IF ar.raised THEN 0 ELSE seconds),
                                             [process |-> Process(dep, child)]))
                      /\ IF ar.raised
                         THEN /\ errors' = Append(errors,
                                     [plugin |-> cand.name,
                                      error |-> <<"post-exception", ar.e>>])
                              /\ idx' = idx + 1
                              /\ pc' = "for_cand"
                              /\ UNCHANGED <<metrics, chain_ret, link>>
                         ELSE /\ metrics' = Update(metrics,
                                                   Get(ar.result, "metrics", EmptyDict))
                              /\ chain_ret' = Append(chain_ret, ar.result)
                              /\ link' = link + 1
                              /\ UNCHANGED <<errors, pc, idx>>
    /\ UNCHANGED <<arg, ret, registry, policy, argv, req, cands, res, stdout, rc>>

\* ChainStep keeping the metrics the trial already has
ChainStepKeepsFirst ==
    /\ pc = "for_link"
    /\ link <= Len(Get(policy, "post_chain", <<>>))
    /\ LET cand == cands[idx]
           l    == Get(policy, "post_chain", <<>>)[link]
           dep  == RegistryGet(registry, l.plugin)
       IN  IF DOMAIN dep = {}
           THEN /\ errors' = Append(errors, [plugin |-> cand.name,
                                             warning |-> <<"missing-post", l.plugin>>])
                /\ UNCHANGED <<metrics, calls, chain_ret>>
           ELSE \E child \in ChainChildren, seconds \in 1..MaxSeconds :
                  LET time_limit_s == TimeLimit(cand.manifest, policy)
                      ar           == run_plugin(dep, ChainParams, "out", time_limit_s,
                                                 child, seconds)
                  IN  /\ calls' = Append(calls,
                                      Update(Call("run_plugin", "chain", dep.name, idx,
                                                  time_limit_s,
                                                  IF ar.raised THEN 0 ELSE seconds),
                                             [process |-> Process(dep, child)]))
                      /\ IF ar.raised
                         THEN /\ errors' = Append(errors,
                                     [plugin |-> cand.name,
                                      error |-> <<"post-exception", ar.e>>])
                              /\ UNCHANGED <<metrics, chain_ret>>
                         ELSE /\ metrics' = Update(Get(ar.result, "metrics", EmptyDict),
                                                   metrics)
                              /\ chain_ret' = Append(chain_ret, ar.result)
                              /\ UNCHANGED errors
    /\ link' = link + 1
    /\ UNCHANGED <<pc, arg, ret, registry, policy, argv, req, cands, idx, res,
                   stdout, rc>>

\* ChainStep running the step under the chain plugin's own time limit
ChainStepOwnLimit ==
    /\ pc = "for_link"
    /\ link <= Len(Get(policy, "post_chain", <<>>))
    /\ LET cand == cands[idx]
           l    == Get(policy, "post_chain", <<>>)[link]
           dep  == RegistryGet(registry, l.plugin)
       IN  IF DOMAIN dep = {}
           THEN /\ errors' = Append(errors, [plugin |-> cand.name,
                                             warning |-> <<"missing-post", l.plugin>>])
                /\ UNCHANGED <<metrics, calls, chain_ret>>
           ELSE \E child \in ChainChildren, seconds \in 1..MaxSeconds :
                  LET time_limit_s == TimeLimit(dep.manifest, policy)
                      ar           == run_plugin(dep, ChainParams, "out", time_limit_s,
                                                 child, seconds)
                  IN  /\ calls' = Append(calls,
                                      Update(Call("run_plugin", "chain", dep.name, idx,
                                                  time_limit_s,
                                                  IF ar.raised THEN 0 ELSE seconds),
                                             [process |-> Process(dep, child)]))
                      /\ IF ar.raised
                         THEN /\ errors' = Append(errors,
                                     [plugin |-> cand.name,
                                      error |-> <<"post-exception", ar.e>>])
                              /\ UNCHANGED <<metrics, chain_ret>>
                         ELSE /\ metrics' = Update(metrics,
                                                   Get(ar.result, "metrics", EmptyDict))
                              /\ chain_ret' = Append(chain_ret, ar.result)
                              /\ UNCHANGED errors
    /\ link' = link + 1
    /\ UNCHANGED <<pc, arg, ret, registry, policy, argv, req, cands, idx, res,
                   stdout, rc>>

\* lines 126-145: one pass of `for link in policy.get("post_chain", [])`
ChainStep ==
    /\ pc = "for_link"
    /\ link <= Len(Get(policy, "post_chain", <<>>))
    /\ LET cand == cands[idx]
           l    == Get(policy, "post_chain", <<>>)[link]
           dep  == RegistryGet(registry, l.plugin)
       IN  IF DOMAIN dep = {}
           THEN /\ errors' = Append(errors, [plugin |-> cand.name,
                                             warning |-> <<"missing-post", l.plugin>>])
                /\ UNCHANGED <<metrics, calls, chain_ret>>
           ELSE \E child \in ChainChildren, seconds \in 1..MaxSeconds :
                  LET time_limit_s == TimeLimit(cand.manifest, policy)
                      ar           == run_plugin(dep, ChainParams, "out", time_limit_s,
                                                 child, seconds)
                  IN  /\ calls' = Append(calls,
                                      Update(Call("run_plugin", "chain", dep.name, idx,
                                                  time_limit_s,
                                                  IF ar.raised THEN 0 ELSE seconds),
                                             [process |-> Process(dep, child)]))
                      /\ IF ar.raised
                         THEN /\ errors' = Append(errors,
                                     [plugin |-> cand.name,
                                      error |-> <<"post-exception", ar.e>>])
                              /\ UNCHANGED <<metrics, chain_ret>>
                         ELSE /\ metrics' = Update(metrics,
                                                   Get(ar.result, "metrics", EmptyDict))
                              /\ chain_ret' = Append(chain_ret, ar.result)
                              /\ UNCHANGED errors
    /\ link' = link + 1
    /\ UNCHANGED <<pc, arg, ret, registry, policy, argv, req, cands, idx, res,
                   stdout, rc>>

\* Evaluate not waiting for the end of the chain
EvaluateBeforeChainEnds ==
    /\ pc = "for_link"
    /\ LET cand == cands[idx]
           man  == cand.manifest
           ok   == passes_thresholds(metrics, Get(policy, "thresholds", EmptyDict))
       IN  CASE ok = "TypeError" ->
                  /\ rc' = 1
                  /\ pc' = "exit"
                  /\ UNCHANGED <<errors, idx, stdout, calls>>
             [] ok = "False" ->
                  /\ errors' = Append(errors, [plugin |-> cand.name,
                                               error |-> <<"bad-metrics">>,
                                               metrics |-> metrics])
                  /\ idx' = idx + 1
                  /\ pc' = "for_cand"
                  /\ UNCHANGED <<stdout, rc, calls>>
             [] ok = "True" ->
                  /\ calls' = Append(calls, Call("_write_summaries", "accept", cand.name,
                                                     idx, 0, 0))
                  /\ stdout' = Append(stdout,
                        [status    |-> "ok",
                         chosen    |-> cand.name,
                         version   |-> Get(man, "version", <<>>),
                         artifacts |-> Get(res, "artifacts", EmptyDict),
                         metrics   |-> metrics,
                         tried     |-> Names(cands)])
                  /\ rc' = 0
                  /\ pc' = "exit"
                  /\ UNCHANGED <<errors, idx>>
    /\ UNCHANGED <<arg, ret, registry, policy, argv, req, cands, link, res, metrics,
                   chain_ret>>

\* lines 147-168: the threshold check, then the rejection, the acceptance or
\* the TypeError that leaves evolve (the interpreter prints the traceback to
\* stderr and exits with status 1)
Evaluate ==
    /\ pc = "for_link"
    /\ link > Len(Get(policy, "post_chain", <<>>))
    /\ LET cand == cands[idx]
           man  == cand.manifest
           ok   == passes_thresholds(metrics, Get(policy, "thresholds", EmptyDict))
       IN  CASE ok = "TypeError" ->
                  /\ rc' = 1
                  /\ pc' = "exit"
                  /\ UNCHANGED <<errors, idx, stdout, calls>>
             [] ok = "False" ->
                  /\ errors' = Append(errors, [plugin |-> cand.name,
                                               error |-> <<"bad-metrics">>,
                                               metrics |-> metrics])
                  /\ idx' = idx + 1
                  /\ pc' = "for_cand"
                  /\ UNCHANGED <<stdout, rc, calls>>
             [] ok = "True" ->
                  /\ calls' = Append(calls, Call("_write_summaries", "accept", cand.name,
                                                     idx, 0, 0))
                  /\ stdout' = Append(stdout,
                        [status    |-> "ok",
                         chosen    |-> cand.name,
                         version   |-> Get(man, "version", <<>>),
                         artifacts |-> Get(res, "artifacts", EmptyDict),
                         metrics   |-> metrics,
                         tried     |-> Names(cands)])
                  /\ rc' = 0
                  /\ pc' = "exit"
                  /\ UNCHANGED <<errors, idx>>
    /\ UNCHANGED <<arg, ret, registry, policy, argv, req, cands, link, res, metrics,
                   chain_ret>>

\* Exhausted returning 0
ExhaustedReturnsZero ==
    /\ pc = "for_cand"
    /\ idx > Len(cands)
    /\ stdout' = Append(stdout, [status |-> "failed", errors |-> errors])
    /\ rc' = 0
    /\ pc' = "exit"
    /\ UNCHANGED <<arg, ret, registry, policy, argv, req, cands, idx, link, errors,
                   res, metrics, calls, chain_ret>>

\* Exhausted printing the last error alone
ExhaustedPrintsLastError ==
    /\ pc = "for_cand"
    /\ idx > Len(cands)
    /\ stdout' = Append(stdout, [status |-> "failed",
                                 errors |-> <<errors[Len(errors)]>>])
    /\ rc' = 1
    /\ pc' = "exit"
    /\ UNCHANGED <<arg, ret, registry, policy, argv, req, cands, idx, link, errors,
                   res, metrics, calls, chain_ret>>

\* lines 170-171: every candidate was rejected
Exhausted ==
    /\ pc = "for_cand"
    /\ idx > Len(cands)
    /\ stdout' = Append(stdout, [status |-> "failed", errors |-> errors])
    /\ rc' = 1
    /\ pc' = "exit"
    /\ UNCHANGED <<arg, ret, registry, policy, argv, req, cands, idx, link, errors,
                   res, metrics, calls, chain_ret>>

Next ==
    \/ Usage
    \/ Select
    \/ Verify
    \/ Execute
    \/ ChainStep
    \/ Evaluate
    \/ Exhausted

Spec == Init /\ [][Next]_vars

-----------------------------------------------------------------------------
(* The selection functions on their own: the arguments are drawn from bounded
   sets, the one step calls the function. *)

Idle ==
    /\ registry = <<>>
    /\ policy = EmptyDict
    /\ argv = <<>>
    /\ req = EmptyDict
    /\ cands = <<>>
    /\ idx = 0
    /\ link = 0
    /\ errors = <<>>
    /\ res = EmptyDict
    /\ metrics = EmptyDict
    /\ stdout = <<>>
    /\ rc = -1
    /\ calls = <<>>
    /\ chain_ret = <<>>

\* the directory name of the i-th plugin
PName(i) ==
    CASE i = 1 -> "p1" [] i = 2 -> "p2" [] i = 3 -> "p3" [] i = 4 -> "p4" [] OTHER -> "p5"

\* plugin_info records named by position, with the given manifests
Entries(ms) == [i \in DOMAIN ms |-> [name |-> PName(i), path |-> PName(i), manifest |-> ms[i]]]

SeqsUpTo(S, n) == UNION { [1..k -> S] : k \in 0..n }

\* registry entries a selection is tried on
MaxReg == 2

SelectManifests ==
    { Update(a, c) :
        a \in {EmptyDict} \cup { [apis |-> x] : x \in SUBSET {"nine", "lucas"} },
        c \in {EmptyDict} \cup { [capabilities |-> y] : y \in SUBSET {"audio", "csv"} } }

InitSelect ==
    /\ pc = "choose_candidates"
    /\ arg \in { [registry |-> Entries(ms), api |-> a, capabilities |-> c] :
                   ms \in SeqsUpTo(SelectManifests, MaxReg),
                   a \in {"nine", "unknown-kind"},
                   c \in SUBSET {"audio", "csv"} }
    /\ ret = <<>>
    /\ Idle

CallChoose ==
    /\ pc = "choose_candidates"
    /\ ret' = choose_candidates(arg.registry, arg.api, arg.capabilities)
    /\ pc' = "returned"
    /\ UNCHANGED <<arg, registry, policy, argv, req, cands, idx, link, errors, res,
                   metrics, stdout, rc, calls, chain_ret>>

SpecSelect == InitSelect /\ [][CallChoose]_vars

\* candidates a ranking is tried on
MaxCands == 3

Versions ==
    { <<"1", ".", "1", "0", ".", "0">>,
      <<"1", ".", "9", ".", "0">>,
      <<"2", ".", "0", ".", "0">>,
      <<"1", ".", "0">>,
      <<"1">>,
      <<>>,
      <<"1", ".", "b", ".", "3">>,
      <<"v", "2", ".", "0", ".", "0">>,
      <<"0", "1", ".", "9">>,
      <<"1", ".", ".", "5">> }

RankManifests == {EmptyDict} \cup { [version |-> v] : v \in Versions }

InitRank ==
    /\ pc = "rank_candidates"
    /\ arg \in { [cands |-> Entries(ms), prefer |-> p] :
                   ms \in SeqsUpTo(RankManifests, MaxCands),
                   p \in {"highest_version", "None"} }
    /\ ret = <<>>
    /\ Idle

CallRank ==
    /\ pc = "rank_candidates"
    /\ ret' = rank_candidates(arg.cands, arg.prefer)
    /\ pc' = "returned"
    /\ UNCHANGED <<arg, registry, policy, argv, req, cands, idx, link, errors, res,
                   metrics, stdout, rc, calls, chain_ret>>

SpecRank == InitRank /\ [][CallRank]_vars

-----------------------------------------------------------------------------
(* Properties of choose_candidates and rank_candidates *)

\* the eligibility rule in the words of the specification: the manifest's
\* apis contain the api and its capabilities contain every required one
Eligible(e, api, capabilities) ==
    /\ "apis" \in DOMAIN e.manifest
    /\ api \in e.manifest.apis
    /\ \A c \in capabilities :
          "capabilities" \in DOMAIN e.manifest /\ c \in e.manifest.capabilities

\* s is r with some entries left out, the others in r's order
RECURSIVE IsSubSeq(_, _)
IsSubSeq(s, r) ==
    IF s = <<>> THEN TRUE
    ELSE IF r = <<>> THEN FALSE
    ELSE IF Head(s) = Head(r) THEN IsSubSeq(Tail(s), Tail(r))
    ELSE IsSubSeq(s, Tail(r))

\* C9: choose_candidates returns exactly the registry entries whose apis
\* contain the requested api and whose capabilities are a superset of the
\* required ones, each once: extra capabilities never exclude a plugin, one
\* missing capability always does, and the empty requirement matches every
\* plugin that supports the api.
C9_ChooseExactlyEligible ==
    pc = "returned" /\ "registry" \in DOMAIN arg =>
        /\ Range(ret) = { e \in Range(arg.registry) : Eligible(e, arg.api, arg.capabilities) }
        /\ \A i, j \in DOMAIN ret : i # j => ret[i] # ret[j]
        /\ IsSubSeq(ret, arg.registry)
        /\ \A e \in Range(arg.registry) :
              /\ (e \in Range(ret) /\ arg.capabilities # {}
                    => arg.capabilities \subseteq e.manifest.capabilities)
              /\ (arg.capabilities = {} /\ "apis" \in DOMAIN e.manifest
                    /\ arg.api \in e.manifest.apis => e \in Range(ret))

\* C9 witness: a plugin with a capability beyond the required ones is
\* returned and a plugin that supports the api but lacks one is not.
C9_Witness ==
    /\ pc = "returned"
    /\ "registry" \in DOMAIN arg
    /\ arg.capabilities = {"audio"}
    /\ \E e \in Range(ret) : e.manifest.capabilities = {"audio", "csv"}
    /\ \E e \in Range(arg.registry) :
          /\ e \notin Range(ret)
          /\ "apis" \in DOMAIN e.manifest
          /\ arg.api \in e.manifest.apis
          /\ "capabilities" \in DOMAIN e.manifest
          /\ e.manifest.capabilities = {"csv"}

\* the numeric value of a dot-separated part, in the words of the
\* specification: a non-numeric part counts as zero
PartValue(part) == IF IsDigit(part) THEN int(part) ELSE 0

\* version a is below version b: at the first part where they differ as
\* numbers, a's is the smaller
VersionBelow(a, b) ==
    LET pa == Split(a)
        pb == Split(b)
    IN  \E i \in 1..Len(pa) :
          /\ i <= Len(pb)
          /\ PartValue(pa[i]) < PartValue(pb[i])
          /\ \A j \in 1..(i - 1) : PartValue(pa[j]) = PartValue(pb[j])

VersionOf(e) == IF "version" \in DOMAIN e.manifest THEN e.manifest.version ELSE DefaultVersion

\* C10: under highest_version, rank_candidates returns a permutation of the
\* candidates (none dropped, none duplicated) in which no candidate stands
\* before one of a higher version, versions compared part by part as numbers
\* with a non-numeric part counting as zero.
C10_RankIsDescendingPermutation ==
    pc = "returned" /\ "cands" \in DOMAIN arg /\ arg.prefer = "highest_version" =>
        /\ Len(ret) = Len(arg.cands)
        /\ \A e \in Range(arg.cands) :
              Cardinality({i \in DOMAIN ret : ret[i] = e}) = 1
        /\ \A i, j \in DOMAIN ret :
              i < j => ~VersionBelow(VersionOf(ret[i]), VersionOf(ret[j]))

\* C10 witness: 1.9.0 was given before 1.10.0 and is returned after it, and
\* a candidate with a non-numeric part is ranked as if the part were zero.
C10_Witness ==
    /\ pc = "returned"
    /\ "cands" \in DOMAIN arg
    /\ arg.prefer = "highest_version"
    /\ Len(ret) = 3
    /\ VersionOf(arg.cands[1]) = <<"1", ".", "9", ".", "0">>
    /\ VersionOf(arg.cands[2]) = <<"1", ".", "1", "0", ".", "0">>
    /\ VersionOf(arg.cands[3]) = <<"v", "2", ".", "0", ".", "0">>
    /\ Names(ret) = <<"p2", "p1", "p3">>

-----------------------------------------------------------------------------
(* Properties of evolve *)

\* the last document evolve printed
Doc == stdout[Len(stdout)]

Ended == pc = "exit"

\* the run ended with a candidate accepted
Accepted == Ended /\ stdout # <<>> /\ Doc.status = "ok"

\* an entry of errors that records why a candidate's trial failed
IsRejection(e) ==
    "error" \in DOMAIN e /\ e.error[1] \in {"bad-signature", "exception", "bad-metrics"}

Rejections(errs) == SelectSeq(errs, IsRejection)

\* the candidates the entries name, in the entries' order
Plugins(errs) == [i \in DOMAIN errs |-> errs[i].plugin]

CallsOf(stage, trial) == { k \in DOMAIN calls : calls[k].stage = stage /\ calls[k].trial = trial }

SignaturesRequired == Get(policy.security, "require_signatures", FALSE)

\* C1: candidates are tried in rank order, and the first one that passes the
\* signature check (when required), its run, the chain and the thresholds is
\* accepted at once: it is the chosen one, every candidate ranked before it
\* was tried and rejected, the run has ended, and nothing was verified or run
\* for a candidate ranked after it.
C1_FirstSuccessWins ==
    /\ \A k \in DOMAIN calls :
          /\ k > 1 => calls[k - 1].trial <= calls[k].trial
          /\ calls[k].stage # "chain" => calls[k].plugin = cands[calls[k].trial].name
    /\ (Ended /\ rc = 0) =>
          /\ Accepted
          /\ Doc.chosen = cands[idx].name
          /\ Plugins(Rejections(errors)) = Names(SubSeq(cands, 1, idx - 1))
          /\ SignaturesRequired => verify_manifest(cands[idx].manifest)
          /\ Cardinality(CallsOf("primary", idx)) = 1
          /\ passes_thresholds(Doc.metrics, Get(policy, "thresholds", EmptyDict)) = "True"
          /\ \A k \in DOMAIN calls : calls[k].trial <= idx
          /\ calls[Len(calls)].stage = "accept"
          /\ ~ENABLED Next

\* C1 witness: the second of three ranked candidates is accepted, after its
\* chain has run.
C1_Witness ==
    /\ Accepted
    /\ idx = 2
    /\ Len(cands) = 3
    /\ CallsOf("chain", 2) # {}

\* the top-ranked candidate's signature does not verify, signatures are
\* required, and there is another candidate
TopHasBadSignature ==
    /\ Len(cands) >= 2
    /\ SignaturesRequired
    /\ ~verify_manifest(cands[1].manifest)

\* C2: when signatures are required and the top-ranked candidate's manifest
\* does not verify, evolve records bad-signature for it, never runs it, and
\* goes on to the next-ranked candidate instead of ending the run: once past
\* the first candidate the run is at the second or later, and a run that has
\* ended has tried the second candidate.
C2_BadSignatureFallsBack ==
    TopHasBadSignature =>
        /\ \A k \in DOMAIN calls :
              calls[k].op = "run_plugin" => calls[k].trial # 1
        /\ idx = 1 => pc = "for_cand" /\ rc = -1
        /\ idx > 1 =>
              /\ errors[1] = [plugin |-> cands[1].name, error |-> <<"bad-signature">>]
              /\ calls[1] = Call("verify_manifest", "verify", cands[1].name, 1, 0, 0)
        /\ Ended =>
              /\ idx >= 2
              /\ \E k \in DOMAIN calls :
                    calls[k].trial = 2 /\ calls[k].plugin = cands[2].name

\* C2 witness: after the top-ranked candidate's bad signature the second
\* candidate is run and accepted.
C2_Witness ==
    /\ TopHasBadSignature
    /\ Accepted
    /\ Doc.chosen = cands[2].name
    /\ CallsOf("primary", 2) # {}

\* the metric dicts in rs merged onto m, later ones winning
RECURSIVE MergeAll(_, _)
MergeAll(m, rs) ==
    IF rs = <<>> THEN m
    ELSE MergeAll(Update(m, Get(Head(rs), "metrics", EmptyDict)), Tail(rs))

\* the metrics this trial's primary run returned
PrimaryMetrics == Get(res, "metrics", EmptyDict)

\* the latency evolve measured around this trial's primary run
MeasuredLatency ==
    LET k == CHOOSE k \in CallsOf("primary", idx) : TRUE
    IN  [latency_ms |-> Num(1000 * calls[k].seconds)]

\* C3 as stated: at most one result is reported, and on success the reported
\* metrics are the union of the chosen candidate's primary-plugin metrics and
\* the metrics of the chain steps of that candidate's trial, and nothing else.
C3_MetricsArePrimaryAndChain ==
    /\ Len(stdout) <= 1
    /\ Accepted => Doc.metrics = MergeAll(PrimaryMetrics, chain_ret)

\* C3 amended: at most one result is reported, and on success the reported
\* metrics are the chosen candidate's primary-plugin metrics, with latency_ms
\* set to the latency evolve measured for that primary run, overwritten by
\* the metrics of the chain steps of that same trial in chain order; nothing
\* of an earlier candidate's trial is in them.
C3_MetricsArePrimaryLatencyAndChain ==
    /\ Len(stdout) <= 1
    /\ Cardinality({ k \in DOMAIN calls : calls[k].stage = "accept" }) <= 1
    /\ Accepted =>
          /\ Doc.chosen = cands[idx].name
          /\ Doc.metrics = MergeAll(Update(PrimaryMetrics, MeasuredLatency), chain_ret)

\* C3 witness: a candidate is accepted after an earlier one was rejected for
\* its metrics, with a metric of the rejected trial that the accepted result
\* does not have, and after a chain step returned metrics.
C3_Witness ==
    /\ Accepted
    /\ chain_ret # <<>>
    /\ \E i \in DOMAIN errors :
          /\ "metrics" \in DOMAIN errors[i]
          /\ errors[i].plugin # Doc.chosen
          /\ \E m \in DOMAIN errors[i].metrics : m \notin DOMAIN Doc.metrics

\* no registry entry is eligible for the request
NoneEligible ==
    /\ Len(argv) >= 1
    /\ \A e \in Range(registry) : ~Eligible(e, req.api, Get(req, "capabilities", {}))

\* C4: when no registry entry matches the request's api and capabilities,
\* evolve ends with the no-candidates failure and has invoked nothing: no
\* run_plugin call, no chain step, no summary.
C4_NoMatchInvokesNothing ==
    NoneEligible /\ pc # "main" =>
        /\ Ended
        /\ rc = 1
        /\ calls = <<>>
        /\ Len(stdout) = 1
        /\ Doc.status = "failed"
        /\ Len(Doc.errors) = 1
        /\ Doc.errors[1].message = "No plugin matches"

\* C4 witness: a registry with plugins, none of them for the api asked for.
C4_Witness ==
    /\ NoneEligible
    /\ Ended
    /\ registry # <<>>
    /\ req.api = "unknown-kind"

\* C5 as stated: exit code 0 exactly when a candidate was accepted, 1 exactly
\* when candidates existed and none was accepted, 2 when no request path was
\* given.
C5_ExitOneIffCandidatesExisted ==
    Ended =>
        /\ rc = 0 <=> Accepted
        /\ rc = 1 <=> (cands # <<>> /\ ~Accepted)
        /\ argv = <<>> => rc = 2

\* C5 amended: exit code 0 exactly when a candidate was accepted, 2 exactly
\* when no request path was given, and 1 in every other case, whether no
\* candidate was eligible or candidates existed and none was accepted; the
\* no-eligible-candidate failure differs from the all-rejected failure in the
\* printed errors (one message against one entry or more per candidate), not
\* in the exit code.
C5_ExitCodes ==
    Ended =>
        /\ rc = 0 <=> Accepted
        /\ rc = 2 <=> argv = <<>>
        /\ rc = 1 <=> (argv # <<>> /\ ~Accepted)
        /\ (rc = 1 /\ cands = <<>>) =>
              /\ Len(stdout) = 1
              /\ Len(Doc.errors) = 1
              /\ DOMAIN Doc.errors[1] = {"message", "api", "caps"}
        /\ (rc = 1 /\ cands # <<>> /\ stdout # <<>>) =>
              /\ Doc.errors # <<>>
              /\ \A i \in DOMAIN Doc.errors : "plugin" \in DOMAIN Doc.errors[i]

\* C5 witness: a failed run with candidates, all rejected.
C5_Witness ==
    /\ Ended
    /\ rc = 1
    /\ Len(cands) >= 2
    /\ stdout # <<>>

\* C6: when every ranked candidate is rejected, the failed outcome holds the
\* errors of all of them: its rejection entries name the ranked candidates
\* one by one in the order they were tried, each with its reason, and a
\* bad-metrics entry carries the metrics that failed the thresholds.
C6_AllRejectionsReported ==
    (Ended /\ cands # <<>> /\ idx > Len(cands)) =>
        /\ rc = 1
        /\ Len(stdout) = 1
        /\ Doc.status = "failed"
        /\ Plugins(Rejections(Doc.errors)) = Names(cands)
        /\ \A i \in DOMAIN Doc.errors :
              LET e == Doc.errors[i]
              IN  ("error" \in DOMAIN e /\ e.error[1] = "bad-metrics") =>
                     /\ "metrics" \in DOMAIN e
                     /\ passes_thresholds(e.metrics, policy.thresholds) = "False"

\* C6 witness: three candidates rejected, for a bad signature, an exception
\* and bad metrics.
C6_Witness ==
    /\ Ended
    /\ Len(cands) = 3
    /\ idx > Len(cands)
    /\ { e.error[1] : e \in Range(Rejections(Doc.errors)) }
          = {"bad-signature", "exception", "bad-metrics"}

\* C7: on a successful run the reported outcome carries the trail: every
\* rejection of a higher-ranked candidate and every chain warning recorded
\* before the acceptance is in the printed result.
C7_SuccessCarriesTrail ==
    Accepted =>
        \A i \in DOMAIN errors :
            /\ "errors" \in DOMAIN Doc
            /\ errors[i] \in Range(Doc.errors)

\* C8: on a successful run the reported 'tried' list is the candidates tried
\* up to and including the chosen one, in rank order, and none ranked after it.
C8_TriedListsAttempted ==
    Accepted => Doc.tried = Names(SubSeq(cands, 1, idx))

-----------------------------------------------------------------------------
(* registry.py: load_registry over a plugins directory, followed by the
   selection of evolve.py lines 87-92 *)

\* json.load of a manifest.json holding a JSON array: a value without .get,
\* told apart from a dict by a key no manifest has
JsonList == [python_type |-> "list"]

IsDict(value) == "python_type" \notin DOMAIN value

\* an entry of plugins/ that is a plain file
NotADir(name) == [name |-> name, is_dir |-> FALSE, manifest_json |-> "absent", value |-> EmptyDict]

\* an entry of plugins/ that is a directory; its manifest.json is "absent",
\* "unreadable" (open raises OSError), "not-utf8" (the read raises
\* UnicodeDecodeError), "not-json" (json.load raises JSONDecodeError) or
\* "json" with the value json.load returns
PluginPath(name, manifest_json, value) ==
    [name |-> name, is_dir |-> TRUE, manifest_json |-> manifest_json, value |-> value]

\* lines 23-44: the loop over plugins_dir.iterdir() from its i-th entry on
RECURSIVE LoadFrom(_, _, _)
LoadFrom(listing, i, reg) ==
    IF i > Len(listing) THEN Returned(reg)
    ELSE LET plugin_path == listing[i]
         IN  IF ~plugin_path.is_dir THEN LoadFrom(listing, i + 1, reg)
             ELSE IF plugin_path.manifest_json = "absent" THEN LoadFrom(listing, i + 1, reg)
             ELSE IF plugin_path.manifest_json \in {"unreadable", "not-json"}
             THEN LoadFrom(listing, i + 1, reg)
             ELSE IF plugin_path.manifest_json = "not-utf8"
             THEN Raised("UnicodeDecodeError", plugin_path.name)
             ELSE LoadFrom(listing, i + 1,
                           Append(reg, [name     |-> plugin_path.name,
                                        path     |-> plugin_path.name,
                                        manifest |-> plugin_path.value]))

\* the registry dict as the sequence of its values in insertion order
load_registry(plugins_dir) ==
    IF ~plugins_dir.exists THEN Returned(<<>>)
    ELSE LoadFrom(plugins_dir.iterdir, 1, <<>>)

\* choose_candidates on a loaded registry: manifest.get (line 68) is reached
\* for every entry and raises AttributeError on a manifest that is no dict
ChooseLoaded(reg, api, capabilities) ==
    IF \E i \in DOMAIN reg : ~IsDict(reg[i].manifest)
    THEN Raised("AttributeError",
                reg[CHOOSE i \in DOMAIN reg :
                        /\ ~IsDict(reg[i].manifest)
                        /\ \A j \in 1..(i - 1) : IsDict(reg[j].manifest)].name)
    ELSE Returned(choose_candidates(reg, api, capabilities))

\* evolve.py lines 85-92 on a directory listing: the ranked candidates, or
\* the exception that leaves evolve
Ordering(plugins_dir, api, capabilities, prefer) ==
    LET loaded == load_registry(plugins_dir)
    IN  IF loaded.raised THEN loaded
        ELSE LET chosen == ChooseLoaded(loaded.result, api, capabilities)
             IN  IF chosen.raised THEN chosen
                 ELSE Returned(rank_candidates(chosen.result, prefer))

\* entries of a plugins directory
MaxDir == 2

DirNames == {"alpha", "beta", "gamma"}

DirContents ==
    { NotADir("x"),
      PluginPath("x", "absent", EmptyDict),
      PluginPath("x", "unreadable", EmptyDict),
      PluginPath("x", "not-utf8", EmptyDict),
      PluginPath("x", "not-json", EmptyDict),
      PluginPath("x", "json", JsonList),
      PluginPath("x", "json", [apis |-> {"nine"}, version |-> V("1", "0", "0")]),
      PluginPath("x", "json", [apis |-> {"nine"}, version |-> V("2", "0", "0")]) }

\* the listings iterdir() can give: entries with distinct names, in any order
Listings ==
    { s \in SeqsUpTo({ [c EXCEPT !.name = n] : n \in DirNames, c \in DirContents }, MaxDir) :
        \A i, j \in DOMAIN s : i # j => s[i].name # s[j].name }

InitLoad ==
    /\ pc = "load_registry"
    /\ arg \in { [plugins_dir |-> d, api |-> "nine", capabilities |-> {}, prefer |-> p] :
                   d \in {[exists |-> FALSE, iterdir |-> <<>>]}
                         \cup { [exists |-> TRUE, iterdir |-> s] : s \in Listings },
                   p \in {"highest_version", "None"} }
    /\ ret = <<>>
    /\ Idle

\* line 85: registry = load_registry(PLUGINS)
CallLoad ==
    /\ pc = "load_registry"
    /\ LET loaded == load_registry(arg.plugins_dir)
       IN  IF loaded.raised
           THEN /\ ret' = loaded
                /\ rc' = 1
                /\ pc' = "exit"
                /\ UNCHANGED registry
           ELSE /\ registry' = loaded.result
                /\ pc' = "loaded"
                /\ UNCHANGED <<ret, rc>>
    /\ UNCHANGED <<arg, policy, argv, req, cands, idx, link, errors, res, metrics,
                   stdout, calls, chain_ret>>

\* lines 91-92: choose, then rank
CallChooseLoaded ==
    /\ pc = "loaded"
    /\ LET chosen == ChooseLoaded(registry, arg.api, arg.capabilities)
       IN  IF chosen.raised
           THEN /\ ret' = chosen
                /\ rc' = 1
                /\ pc' = "exit"
                /\ UNCHANGED cands
           ELSE /\ cands' = rank_candidates(chosen.result, arg.prefer)
                /\ pc' = "selected"
                /\ UNCHANGED <<ret, rc>>
    /\ UNCHANGED <<arg, registry, policy, argv, req, idx, link, errors, res, metrics,
                   stdout, calls, chain_ret>>

NextLoad == CallLoad \/ CallChooseLoaded

SpecLoad == InitLoad /\ [][NextLoad]_vars

\* the listings that hold the same entries as s, in every order
Reorderings(s) ==
    { [i \in DOMAIN s |-> s[p[i]]] : p \in Permutations(DOMAIN s) }

\* C11: the ordered candidate list depends on the set of plugins and the
\* request alone: whatever the order in which the plugin directories were
\* enumerated, the selection yields the same ordered list.
C11_OrderingIndependentOfEnumeration ==
    pc = "selected" /\ "plugins_dir" \in DOMAIN arg =>
        \A s \in Reorderings(arg.plugins_dir.iterdir) :
            Ordering([arg.plugins_dir EXCEPT !.iterdir = s],
                     arg.api, arg.capabilities, arg.prefer) = Returned(cands)

\* a directory of plugins/ whose manifest.json parses to a manifest object
WellFormed(plugin_path) ==
    plugin_path.is_dir /\ plugin_path.manifest_json = "json" /\ IsDict(plugin_path.value)

\* C19: load_registry is total: whatever the plugins directory holds, neither
\* it nor the selection that follows aborts the run, and the registry holds
\* exactly the well-formed plugins, every bad entry having been skipped.
C19_LoadIsTotal ==
    "plugins_dir" \in DOMAIN arg =>
        /\ pc # "exit"
        /\ pc \in {"loaded", "selected"} =>
              Names(registry) = Names(SelectSeq(arg.plugins_dir.iterdir, WellFormed))

-----------------------------------------------------------------------------
(* tools/sign_manifest.py and verify_manifest: a manifest is signed, a field
   other than the signature may then be edited, and the result is verified *)

\* the values a manifest field is given (a JSON list is a sequence)
FieldValues(key) ==
    CASE key = "name" -> {"nine", "lucas"}
      [] key = "time_limit_s" -> {5, 15}
      [] key = "apis" -> { <<"nine">>, <<"lucas", "nine">> }

SignedFields == {"name", "time_limit_s", "apis"}

\* manifests before signing: any of the fields, and possibly a signature
\* left over from an earlier signing
SigManifests ==
    LET Field(key) == {EmptyDict} \cup { (key :> v) : v \in FieldValues(key) }
        Stale      == {EmptyDict,
                       [signature |-> sha256_manifest_without_sig([name |-> "nine"])]}
    IN  { Update(Update(Update(n, t), a), s) :
            n \in Field("name"), t \in Field("time_limit_s"), a \in Field("apis"),
            s \in Stale }

\* the manifests one edit away from man: a field other than the signature
\* removed, added, or given another value
Edits(man) ==
    { Pop(man, key) : key \in DOMAIN man \ {"signature"} }
    \cup UNION { { Update(man, (key :> v)) :
                     v \in { w \in FieldValues(key) : key \in DOMAIN man => man[key] # w } } :
                 key \in SignedFields }

InitSig ==
    /\ pc = "sign_manifest"
    /\ arg \in { [manifest |-> m] : m \in SigManifests }
    /\ ret = <<>>
    /\ Idle

\* sign_manifest.py lines 28-39
CallSign ==
    /\ pc = "sign_manifest"
    /\ ret' = sign_manifest(arg.manifest)
    /\ pc' = "signed"
    /\ UNCHANGED <<arg, registry, policy, argv, req, cands, idx, link, errors, res,
                   metrics, stdout, rc, calls, chain_ret>>

\* the signed manifest.json is edited by hand
EditSigned ==
    /\ pc = "signed"
    /\ ret' \in Edits(ret)
    /\ pc' = "edited"
    /\ UNCHANGED <<arg, registry, policy, argv, req, cands, idx, link, errors, res,
                   metrics, stdout, rc, calls, chain_ret>>

\* the signature field as it may be rewritten by hand: the same digest in
\* upper-case hex digits, the empty string, or no field at all
Stamps(man) ==
    { [man EXCEPT !.signature = HexDigest(@.of, "upper")],
      [man EXCEPT !.signature = EmptyString],
      Pop(man, "signature") }

\* the signature of the signed manifest.json is rewritten
StampSigned ==
    /\ pc = "signed"
    /\ ret' \in Stamps(ret)
    /\ pc' = "stamped"
    /\ UNCHANGED <<arg, registry, policy, argv, req, cands, idx, link, errors, res,
                   metrics, stdout, rc, calls, chain_ret>>

\* evolve.py line 109: verify_manifest(man) on the manifest as it now is
CallVerify ==
    /\ pc \in {"signed", "edited", "stamped"}
    /\ arg' = [manifest |-> ret, edited |-> (pc = "edited")]
    /\ ret' = verify_manifest(ret)
    /\ pc' = IF pc = "stamped" THEN "verified_stamped" ELSE "verified"
    /\ UNCHANGED <<registry, policy, argv, req, cands, idx, link, errors, res,
                   metrics, stdout, rc, calls, chain_ret>>

NextSig == CallSign \/ EditSigned \/ StampSigned \/ CallVerify

SpecSig == InitSig /\ [][NextSig]_vars

\* C12: a manifest signed by sign_manifest verifies, and it no longer
\* verifies once a field other than the signature has been added, removed or
\* changed.
C12_SignedVerifiesEditedDoesNot ==
    pc = "verified" => (ret <=> ~arg.edited)

\* C12 witness: a signed manifest that was edited, and now holds name and
\* apis and no time_limit_s, was verified and refused.
C12_Witness ==
    /\ pc = "verified"
    /\ arg.edited
    /\ ret = FALSE
    /\ "signature" \in DOMAIN arg.manifest
    /\ "name" \in DOMAIN arg.manifest
    /\ "time_limit_s" \notin DOMAIN arg.manifest
    /\ "apis" \in DOMAIN arg.manifest

-----------------------------------------------------------------------------
(* passes_thresholds on its own *)

\* metric values around the bounds 5 and 10, and a string
MetricValues == { Num(4), Num(5), Num(6), Num(9), Num(10), Num(11), Str(1) }

ThrMetrics ==
    LET Metric(key) == {EmptyDict} \cup { (key :> v) : v \in MetricValues }
    IN  { Update(a, b) : a \in Metric("x"), b \in Metric("y") }

\* policy.get("thresholds", {}): absent or empty, and dicts with min, max or
\* both
ThrPolicies ==
    { EmptyDict,
      [min |-> << <<"x", 10>> >>, max |-> << <<"y", 5>> >>],
      [max |-> << <<"x", 10>>, <<"y", 5>> >>],
      [min |-> << <<"x", 10>>, <<"y", 5>> >>],
      [max |-> <<>>],
      [min |-> << <<"x", 5>> >>, max |-> << <<"x", 10>> >>] }

InitThr ==
    /\ pc = "passes_thresholds"
    /\ arg \in { [metrics |-> m, thr |-> t] : m \in ThrMetrics, t \in ThrPolicies }
    /\ ret = <<>>
    /\ Idle

CallPasses ==
    /\ pc = "passes_thresholds"
    /\ ret' = passes_thresholds(arg.metrics, arg.thr)
    /\ pc' = "returned"
    /\ UNCHANGED <<arg, registry, policy, argv, req, cands, idx, link, errors, res,
                   metrics, stdout, rc, calls, chain_ret>>

SpecThr == InitThr /\ [][CallPasses]_vars

\* some metric present in m is above its bound in mx, or below its bound in mn
AboveMax(m, mx) ==
    \E i \in DOMAIN mx : mx[i][1] \in DOMAIN m /\ m[mx[i][1]].num /\ m[mx[i][1]].v > mx[i][2]

BelowMin(m, mn) ==
    \E i \in DOMAIN mn : mn[i][1] \in DOMAIN m /\ m[mn[i][1]].num /\ m[mn[i][1]].v < mn[i][2]

-----------------------------------------------------------------------------
(* Properties of the primary run and of the chain *)

\* the primary calls made so far
PrimaryCalls == { k \in DOMAIN calls : calls[k].stage = "primary" }

\* the trial of call k is over: evolve has moved to a later candidate or ended
TrialOver(k) == calls[k].trial < idx \/ Ended

\* errors holds an entry of the given kind naming the plugin
HasEntry(plugin_name, kind) ==
    \E e \in Range(errors) :
        e.plugin = plugin_name /\ "error" \in DOMAIN e /\ e.error[1] = kind

\* the entry point of the call's plugin could not be located
NotLocated(c) == c.process.mock

NotSpawned(c) == ~c.process.mock /\ ~c.process.child.spawned

TimedOut(c) == ~c.process.mock /\ c.process.child.spawned /\ c.process.child.timeout

ExitedNonZero(c) ==
    /\ ~c.process.mock
    /\ c.process.child.spawned
    /\ ~c.process.child.timeout
    /\ c.process.child.returncode # 0

\* C14: every execution error of a primary run (the entry point is not
\* located or not spawned, the run times out, or it exits non-zero) fails the
\* trial: an error entry names the candidate, the next candidate is up, and
\* the candidate is not the chosen one.
C14_ExecutionErrorsFailTheTrial ==
    \A k \in PrimaryCalls :
        NotLocated(calls[k]) \/ NotSpawned(calls[k]) \/ TimedOut(calls[k])
            \/ ExitedNonZero(calls[k]) =>
                /\ HasEntry(calls[k].plugin, "exception")
                /\ calls[k].trial < idx
                /\ ~(Accepted /\ Doc.chosen = calls[k].plugin)

\* the reply a child wrote reaches the outcome of the run through res and
\* metrics; after a failed primary run both are what they were before it
RunLeftNoResult ==
    pc = "run" /\ pc' = "for_cand" =>
        /\ UNCHANGED <<res, metrics, chain_ret, stdout, rc>>
        /\ idx' = idx + 1
        /\ Len(errors') = Len(errors) + 1

\* C15: a non-zero exit status of the child is a failure whatever the child
\* wrote: run_plugin returns no result, the candidate is rejected with an
\* error entry and is not chosen, and nothing of what the child wrote is kept.
C15_NonZeroExitIsFailure ==
    /\ [](\A k \in PrimaryCalls :
            ExitedNonZero(calls[k]) =>
                /\ HasEntry(calls[k].plugin, "exception")
                /\ calls[k].trial < idx
                /\ ~(Accepted /\ Doc.chosen = calls[k].plugin))
    /\ [](\A k \in DOMAIN calls :
            calls[k].stage = "chain" /\ ExitedNonZero(calls[k]) =>
                HasEntry(cands[calls[k].trial].name, "post-exception"))
    /\ [][RunLeftNoResult]_vars
    /\ [](\A d \in Children, p \in Range(registry) :
            d.spawned /\ ~d.timeout /\ d.returncode # 0 /\ ScriptPath(p) # NoScript =>
                run_plugin(p, ChainParams, "out", 15, d, 1).raised)

\* C15 witness: a child that wrote a well-formed reply with status ok and
\* metrics exited with status 1; its candidate was rejected and the next one
\* accepted.
C15_Witness ==
    /\ Accepted
    /\ idx = 2
    /\ \E k \in PrimaryCalls :
          /\ calls[k].trial = 1
          /\ ExitedNonZero(calls[k])
          /\ calls[k].process.child.stdout = OkReply

-----------------------------------------------------------------------------
(* sandbox.py: the processes and the files a run leaves behind *)

\* the processes a run_plugin call started: the child of Popen and, when the
\* child forks, the process it started
Started(c) ==
    IF c.process.mock \/ ~c.process.child.spawned THEN {}
    ELSE {"child"} \cup (IF Get(c.process.child, "forks", FALSE) THEN {"descendant"} ELSE {})

\* line 85, process.kill(): SIGKILL is sent to the child's pid alone
Kill(processes, pid) == processes \ {pid}

\* the processes of the call still running when run_plugin has returned or
\* raised: on a timeout the child has been killed, otherwise communicate()
\* has returned because the child has exited
Running(c) ==
    IF c.process.mock \/ ~c.process.child.spawned THEN {}
    ELSE IF c.process.child.timeout THEN Kill(Started(c), "child")
    ELSE Started(c) \ {"child"}

\* the files a child writes into the output directory before it ends: the
\* children that report sequence.wav, and the ones cut off by the time limit
\* (a partial file)
WroteByChild(child) ==
    IF child.spawned /\ (child.timeout \/ child.stdout = OkReply)
    THEN {"sequence.wav"}
    ELSE {}

\* the output directory after the first n calls: each file with the call that
\* wrote it last; create_mock_output writes a file only `if not exists`
RECURSIVE OutDirAfter(_)
OutDirAfter(n) ==
    IF n = 0 THEN EmptyDict
    ELSE LET dir == OutDirAfter(n - 1)
             c   == calls[n]
         IN  IF c.op # "run_plugin" THEN dir
             ELSE IF c.process.mock
             THEN Update([f \in {"sequence.wav", "sequence.csv"} |-> n], dir)
             ELSE Update(dir, [f \in WroteByChild(c.process.child) |-> n])

\* C16: a run that exceeds its time limit is reported as a timeout failure,
\* the child and its descendants are terminated, and once evolve has returned
\* no process started for any trial is still running.
C16_NoProcessOutlivesTheRun ==
    /\ \A k \in PrimaryCalls :
          TimedOut(calls[k]) =>
              \E e \in Range(errors) :
                  /\ e.plugin = calls[k].plugin
                  /\ "error" \in DOMAIN e
                  /\ e.error[1] = "exception"
                  /\ e.error[2].what = "timed out"
    /\ Ended => \A k \in DOMAIN calls :
                    calls[k].op = "run_plugin" => Running(calls[k]) = {}

\* the trial during which the file at the path was last written, 0 when the
\* file does not exist; n is the number of calls made before the file is used
WrittenInTrial(path, n) ==
    IF path[2] \in DOMAIN OutDirAfter(n) THEN calls[OutDirAfter(n)[path[2]]].trial ELSE 0

\* C20: no file left in the output directory by a candidate whose trial failed
\* is surfaced: every artifact reported on success, and the sequence.wav handed
\* to each chain step of the chosen candidate, was written during the chosen
\* candidate's own trial.
C20_ArtifactsAreTheChosenOnes ==
    Accepted =>
        /\ \A a \in DOMAIN Doc.artifacts :
              WrittenInTrial(Doc.artifacts[a], Len(calls)) \in {0, idx}
        /\ \A k \in CallsOf("chain", idx) :
              WrittenInTrial(ChainParams.wav, k - 1) \in {0, idx}

\* the child of the call exited with status zero and wrote no JSON
RawExitZero(c) ==
    /\ ~c.process.mock
    /\ c.process.child.spawned
    /\ ~c.process.child.timeout
    /\ c.process.child.returncode = 0
    /\ ~c.process.child.stdout.json

\* the policy's chain names a plugin of the registry
ChainHasRegistered ==
    \E i \in DOMAIN Get(policy, "post_chain", <<>>) :
        DOMAIN RegistryGet(registry, Get(policy, "post_chain", <<>>)[i].plugin) # {}

\* the trial of primary call k, whose child exited zero with raw text, did
\* not fail at the run: the result wraps the text with the given metrics and
\* no artifacts, the chain ran and the thresholds were evaluated
RawTrialContinues(k, wrapped_metrics) ==
    LET c == calls[k]
    IN  /\ ~HasEntry(c.plugin, "exception")
        /\ c.trial = idx /\ pc \in {"for_link", "exit"} =>
              res = [status    |-> "completed",
                     output    |-> c.process.child.stdout.text,
                     artifacts |-> EmptyDict,
                     metrics   |-> wrapped_metrics]
        /\ TrialOver(k) =>
              /\ ChainHasRegistered => CallsOf("chain", c.trial) # {}
              /\ \/ HasEntry(c.plugin, "bad-metrics")
                 \/ Accepted /\ Doc.chosen = c.plugin
                 \/ rc = 1 /\ stdout = <<>>

ChainRunFailed(c) == NotSpawned(c) \/ TimedOut(c) \/ ExitedNonZero(c)

\* a step of the chain loop that recorded something: the candidate, its
\* metrics and its result are what they were, the loop goes on with the next
\* link, and the entry is a missing-post warning or a post-exception, naming
\* the candidate
ChainErrorIsLocal ==
    pc = "for_link" /\ link' = link + 1 /\ errors' # errors =>
        /\ UNCHANGED <<metrics, res, idx, cands, pc, chain_ret, stdout, rc>>
        /\ Len(errors') = Len(errors) + 1
        /\ SubSeq(errors', 1, Len(errors)) = errors
        /\ LET e == errors'[Len(errors')]
           IN  /\ e.plugin = cands[idx].name
               /\ ~IsRejection(e)
               /\ \/ "warning" \in DOMAIN e /\ e.warning[1] = "missing-post"
                  \/ "error" \in DOMAIN e /\ e.error[1] = "post-exception"

-----------------------------------------------------------------------------
(* sandbox.py lines 21-34: where run_plugin finds the script it executes *)

\* a pathlib path: absolute or relative, and its components
Path(abs, parts) == [abs |-> abs, parts |-> parts]

\* no script: the mock output is returned
NoPath == Path(FALSE, <<>>)

\* pathlib's `a / b`: an absolute b replaces a, a relative b is appended as
\* it is (".." is kept)
Join(a, b) == IF b.abs THEN b ELSE Path(a.abs, a.parts \o b.parts)

\* the components the file system walks: ".." steps out of the directory
\* reached so far
RECURSIVE Walk(_, _)
Walk(done, parts) ==
    IF parts = <<>> THEN done
    ELSE IF Head(parts) = ".."
    THEN Walk(IF done = <<>> THEN done ELSE SubSeq(done, 1, Len(done) - 1), Tail(parts))
    ELSE Walk(Append(done, Head(parts)), Tail(parts))

\* the file a path names
Resolve(path) == Path(path.abs, Walk(<<>>, path.parts))

\* path.exists() on a file system holding the given files
Exists(path, files) == Resolve(path) \in files

\* lines 22-34: the script run_plugin will execute, NoPath when it falls back
\* to the mock output
LocateScript(plugin_data, files) ==
    LET plugin_name == plugin_data.name
        plugin_path == plugin_data.path
        script_name == Get(plugin_data.manifest, "script", Path(FALSE, <<"run.py">>))
        script_path == Join(plugin_path, script_name)
        alts        == << Path(FALSE, <<"main.py">>), Path(FALSE, <<"plugin.py">>),
                          Path(FALSE, <<plugin_name \o ".py">>) >>
    IN  IF Exists(script_path, files) THEN script_path
        ELSE IF \E i \in 1..3 : Exists(Join(plugin_path, alts[i]), files)
             THEN Join(plugin_path,
                       alts[CHOOSE i \in 1..3 :
                              /\ Exists(Join(plugin_path, alts[i]), files)
                              /\ \A j \in 1..(i - 1) : ~Exists(Join(plugin_path, alts[j]), files)])
             ELSE NoPath

\* the candidate's directory
NinePath == Path(TRUE, <<"plugins", "nine">>)

\* files the file system may hold
ScriptFiles ==
    { Path(TRUE, <<"plugins", "nine", "run.py">>),
      Path(TRUE, <<"plugins", "nine", "main.py">>),
      Path(TRUE, <<"plugins", "nine", "nine.py">>),
      Path(TRUE, <<"plugins", "other", "main.py">>),
      Path(TRUE, <<"tmp", "evil.py">>) }

\* the manifest's "script": absent, a file name, a path into another plugin's
\* directory, an absolute path
ScriptValues ==
    { Path(FALSE, <<"run.py">>),
      Path(FALSE, <<"tool.py">>),
      Path(FALSE, <<"..", "other", "main.py">>),
      Path(TRUE, <<"tmp", "evil.py">>) }

InitScript ==
    /\ pc = "run_plugin"
    /\ arg \in { [plugin_data |-> [name |-> "nine", path |-> NinePath, manifest |-> m],
                  files |-> f] :
                   m \in {EmptyDict} \cup { [script |-> s] : s \in ScriptValues },
                   f \in SUBSET ScriptFiles }
    /\ ret = <<>>
    /\ Idle

\* lines 21-53: locate the script and hand it to Popen
CallLocate ==
    /\ pc = "run_plugin"
    /\ ret' = LocateScript(arg.plugin_data, arg.files)
    /\ pc' = IF ret' = NoPath THEN "mock" ELSE "Popen"
    /\ UNCHANGED <<arg, registry, policy, argv, req, cands, idx, link, errors, res,
                   metrics, stdout, rc, calls, chain_ret>>

SpecScript == InitScript /\ [][CallLocate]_vars

\* the file lies in the directory or below it
Inside(file, dir) ==
    /\ file.abs = dir.abs
    /\ Len(file.parts) > Len(dir.parts)
    /\ SubSeq(file.parts, 1, Len(dir.parts)) = dir.parts

\* C21: the script run_plugin executes lies inside the candidate's own plugin
\* directory: an absolute path, or one that leaves the directory, given by
\* the manifest is never executed.
C21_ScriptInsidePluginDir ==
    pc = "Popen" => Inside(Resolve(ret), arg.plugin_data.path)

-----------------------------------------------------------------------------
(* Properties of the order of the stages, the time limits, the merge of the
   metrics and the end of the run *)

PostChain == Get(policy, "post_chain", <<>>)

\* the stages in the order of one trial
StageRank(stage) ==
    CASE stage = "verify" -> 1 [] stage = "primary" -> 2 [] stage = "chain" -> 3
      [] stage = "accept" -> 4

\* one step of evolve keeps the order of the stages: a candidate is run only
\* from the state its verification left, the chain starts only after the
\* primary run has returned and takes the links one by one in policy order,
\* the thresholds are evaluated only when no link is left, and the next
\* candidate is taken up only by the step that ends the trial before it
StagesInSequence ==
    /\ pc' = "run" => pc = "for_cand" /\ idx' = idx
    /\ pc = "run" =>
          \/ pc' = "for_cand" /\ idx' = idx + 1
          \/ pc' = "for_link" /\ idx' = idx /\ link' = 1
    /\ pc = "for_link" /\ pc' = "for_link" =>
          /\ link <= Len(PostChain)
          /\ link' = link + 1
          /\ idx' = idx
          /\ Len(calls') > Len(calls) =>
                calls'[Len(calls')].plugin = PostChain[link].plugin
    /\ pc = "for_link" /\ pc' # "for_link" =>
          /\ link > Len(PostChain)
          /\ pc' \in {"for_cand", "exit"}
          /\ pc' = "for_cand" => idx' = idx + 1
    /\ idx' # idx => idx' = idx + 1 /\ pc' = "for_cand"
    /\ Len(calls') \in {Len(calls), Len(calls) + 1}
    /\ SubSeq(calls', 1, Len(calls)) = calls

\* C22: within a trial the stages run in strict sequence (verification, then
\* the primary run, then the chain steps one after another in policy order,
\* then the thresholds), each at most once, and nothing is done for candidate
\* k+1 before the trial of candidate k has ended.
C22_StagesRunInSequence ==
    /\ [][StagesInSequence]_vars
    /\ [](\A j, k \in DOMAIN calls :
            j < k =>
                /\ calls[j].trial <= calls[k].trial
                /\ calls[j].trial = calls[k].trial =>
                      /\ StageRank(calls[j].stage) <= StageRank(calls[k].stage)
                      /\ calls[j].stage = calls[k].stage => calls[j].stage = "chain")
    /\ [](\A k \in DOMAIN calls :
            /\ calls[k].trial <= idx
            /\ calls[k].stage \in {"chain", "accept"} =>
                  Cardinality(CallsOf("primary", calls[k].trial)) = 1
            /\ calls[k].stage = "primary" /\ SignaturesRequired =>
                  Cardinality(CallsOf("verify", calls[k].trial)) = 1)

\* C22 witness: with signatures required, a candidate went through its
\* verification, its primary run and its chain and was rejected on its
\* metrics, and the next one went through all of them and was accepted.
C22_Witness ==
    /\ Accepted
    /\ SignaturesRequired
    /\ idx > 1
    /\ CallsOf("chain", idx) # {}
    /\ CallsOf("verify", idx - 1) # {}
    /\ CallsOf("chain", idx - 1) # {}
    /\ HasEntry(cands[idx - 1].name, "bad-metrics")

\* the stored signature is the digest of the manifest up to the letter case
\* of its hex digits
SignatureMatchesUpToCase(man) ==
    /\ "signature" \in DOMAIN man
    /\ man.signature # EmptyString
    /\ man.signature.of = sha256_manifest_without_sig(man).of

\* C23: verify_manifest compares the digest with the stored signature without
\* regard to the letter case of the hex digits: a signature equal to the
\* digest up to case verifies, an empty or missing one never does.
C23_CompareIgnoresCase ==
    pc = "verified_stamped" => (ret <=> SignatureMatchesUpToCase(arg.manifest))

\* the result carries the duration of the run among its metrics
HasExecutionTime(result) ==
    "metrics" \in DOMAIN result /\ "execution_time_s" \in DOMAIN result.metrics

\* C24: every result run_plugin returns, whether from a structured reply,
\* from raw text or for a candidate without a script, carries a wall-clock
\* execution-duration metric.
C24_ResultsCarryExecutionTime ==
    /\ DOMAIN res # {} => HasExecutionTime(res)
    /\ \A i \in DOMAIN chain_ret : HasExecutionTime(chain_ret[i])

-----------------------------------------------------------------------------
(* sandbox.py lines 36-59: what run_plugin writes to the child's stdin *)

\* lines 37-40
input_data(params, output_dir) == [params |-> params, output_dir |-> output_dir]

\* the parameters of the call: the request's for a primary run, line 139's
\* for a chain step
ParamsOf(c) == IF c.stage = "primary" THEN Get(req, "params", EmptyDict) ELSE ChainParams

\* the documents written to the stdin of the call's child before it is
\* closed: communicate(input=json.dumps(input_data)) writes one; nothing is
\* written when no child was started
Stdin(c) ==
    IF c.process.mock \/ ~c.process.child.spawned THEN <<>>
    ELSE << input_data(ParamsOf(c), "out") >>

\* C25: every child started for a primary run or a chain step is sent one
\* request on its stdin, holding the parameters, the output directory and a
\* copy of the plugin's manifest.
C25_RequestCarriesManifest ==
    \A k \in DOMAIN calls :
        calls[k].op = "run_plugin" /\ Started(calls[k]) # {} =>
            /\ Len(Stdin(calls[k])) = 1
            /\ Stdin(calls[k])[1].params = ParamsOf(calls[k])
            /\ Stdin(calls[k])[1].output_dir = "out"
            /\ "manifest" \in DOMAIN Stdin(calls[k])[1]
            /\ Stdin(calls[k])[1].manifest = RegistryGet(registry, calls[k].plugin).manifest

-----------------------------------------------------------------------------
(* evolve with a chain of two registered steps *)

\* a registry whose order meter carries a time limit of its own
ChainRegistry ==
    << PluginInfo("codex.sequence.nine2"), PluginInfo("lucas_generator"),
       [PluginInfo("codex.order_meter") EXCEPT
           !.manifest = Update(@, [time_limit_s |-> 2])] >>

\* policies whose post_chain names two registered plugins
ChainPolicies ==
    { [security   |-> [require_signatures |-> sig],
       limits     |-> [time_s |-> 15],
       thresholds |-> thr,
       post_chain |-> << [plugin |-> "codex.order_meter"],
                         [plugin |-> "lucas_generator"] >>] :
        sig \in BOOLEAN, thr \in Thresholds }

InitChain ==
    /\ pc = "main"
    /\ arg = <<>>
    /\ ret = <<>>
    /\ \/ /\ argv = <<>>
          /\ registry = <<>>
          /\ policy = EmptyDict
          /\ req = EmptyDict
       \/ /\ argv = <<"examples/request_nine.json">>
          /\ registry = ChainRegistry
          /\ policy \in ChainPolicies
          /\ req = [api |-> "nine", capabilities |-> {"audio"}, params |-> [steps |-> 9]]
    /\ cands = <<>>
    /\ idx = 0
    /\ link = 0
    /\ errors = <<>>
    /\ res = EmptyDict
    /\ metrics = EmptyDict
    /\ stdout = <<>>
    /\ rc = -1
    /\ calls = <<>>
    /\ chain_ret = <<>>

SpecChain == InitChain /\ [][Next]_vars

\* the metrics a chain step returned
StepMetrics(i) == Get(chain_ret[i], "metrics", EmptyDict)

\* the successful chain steps of this trial that returned the metric
StepsWith(m) == { i \in DOMAIN chain_ret : m \in DOMAIN StepMetrics(i) }

\* the last of them
LastWith(m) == CHOOSE i \in StepsWith(m) : \A j \in StepsWith(m) : j <= i

\* the chain of the current trial has ended
ChainEnded == pc = "for_link" /\ link > Len(Get(policy, "post_chain", <<>>))

\* C26 as stated: after the chain of a trial each metric name holds the value
\* of the last successful chain step that returned it, otherwise the value the
\* primary plugin returned.
C26_LastStepElsePrimary ==
    ChainEnded =>
        \A m \in DOMAIN metrics :
            IF StepsWith(m) # {}
            THEN metrics[m] = StepMetrics(LastWith(m))[m]
            ELSE m \in DOMAIN PrimaryMetrics /\ metrics[m] = PrimaryMetrics[m]

\* C26 amended: throughout the chain of a trial each metric name holds the
\* value of the last successful chain step so far that returned it, otherwise
\* the latency evolve measured for the primary run when the name is
\* latency_ms, otherwise the value the primary plugin returned; the names are
\* those of the primary run, latency_ms and those of the successful steps.
C26_LastStepElseLatencyElsePrimary ==
    pc = "for_link" =>
        /\ DOMAIN metrics = DOMAIN PrimaryMetrics \cup {"latency_ms"}
                              \cup UNION { DOMAIN StepMetrics(i) : i \in DOMAIN chain_ret }
        /\ \A m \in DOMAIN metrics :
              IF StepsWith(m) # {}
              THEN metrics[m] = StepMetrics(LastWith(m))[m]
              ELSE IF m = "latency_ms"
                   THEN metrics[m] = MeasuredLatency.latency_ms
                   ELSE metrics[m] = PrimaryMetrics[m]

\* C26 witness: both chain steps succeeded and returned order_k2 with unlike
\* values, the primary plugin returned a third, and the second step's value
\* is the one held at the end of the chain.
C26_Witness ==
    /\ ChainEnded
    /\ Len(chain_ret) = 2
    /\ "order_k2" \in DOMAIN PrimaryMetrics
    /\ "order_k2" \in DOMAIN StepMetrics(1) \cap DOMAIN StepMetrics(2)
    /\ StepMetrics(1).order_k2 # StepMetrics(2).order_k2
    /\ PrimaryMetrics.order_k2 # StepMetrics(2).order_k2
    /\ PrimaryMetrics.order_k2 # StepMetrics(1).order_k2
    /\ metrics.order_k2 = StepMetrics(2).order_k2

\* C27: the registry, the policy and the request are never changed by a
\* trial, and from the ranking on neither is the candidate list: whatever
\* trials were accepted or rejected, every candidate is the registry's entry
\* of its name, with the manifest load_registry read, and the parameters
\* handed to the next candidate are the request's.
C27_SharedInputsAreReadOnly ==
    /\ [](\A i \in DOMAIN cands : cands[i] = RegistryGet(registry, cands[i].name))
    /\ [][/\ registry' = registry
          /\ policy' = policy
          /\ req' = req
          /\ pc # "main" => cands' = cands]_vars

\* C27 witness: a candidate is being run after an earlier candidate's primary
\* run failed and another one's signature was checked.
C27_Witness ==
    /\ pc = "for_link"
    /\ idx >= 2
    /\ \E i \in DOMAIN errors : HasEntry(errors[i].plugin, "exception")
    /\ \E k \in DOMAIN calls : calls[k].op = "verify_manifest"
    /\ CallsOf("primary", idx) # {}

\* the time limit the call's own plugin asks for in its manifest, if any
OwnLimit(c) == Get(RegistryGet(registry, c.plugin).manifest, "time_limit_s", 0)

\* C28: a candidate's primary run has the time limit of its manifest's
\* time_limit_s when present and the policy's limits.time_s otherwise, and
\* every chain step of the trial runs under that same limit of the primary
\* candidate, whatever time_limit_s the chain plugin's own manifest holds.
C28_ChainRunsUnderPrimaryLimit ==
    \A k \in DOMAIN calls :
        calls[k].op = "run_plugin" =>
            LET man == cands[calls[k].trial].manifest
            IN  calls[k].time_limit_s =
                    IF "time_limit_s" \in DOMAIN man THEN man.time_limit_s
                    ELSE policy.limits.time_s

\* C28 witness: in one run a chain step of a plugin with a time limit of its
\* own ran under the policy default of a primary candidate without one, and
\* another under the manifest limit of a primary candidate with one.
C28_Witness ==
    /\ \E k \in DOMAIN calls :
          /\ calls[k].stage = "chain"
          /\ OwnLimit(calls[k]) = 2
          /\ "time_limit_s" \notin DOMAIN cands[calls[k].trial].manifest
          /\ calls[k].time_limit_s = 15
    /\ \E k \in DOMAIN calls :
          /\ calls[k].stage = "chain"
          /\ OwnLimit(calls[k]) = 2
          /\ calls[k].time_limit_s = 5
    /\ \E k \in DOMAIN calls :
          calls[k].stage = "primary" /\ calls[k].time_limit_s = 5

\* the outcomes of a run of evolve
OutcomeAccepted == Accepted /\ rc = 0

OutcomeExhausted ==
    Ended /\ stdout # <<>> /\ Doc.status = "failed" /\ cands # <<>> /\ rc = 1

OutcomeNoCandidates ==
    Ended /\ stdout # <<>> /\ Doc.status = "failed" /\ cands = <<>> /\ rc = 1

\* each ranked candidate has had at most one primary run
TriedAtMostOnce ==
    /\ \A i \in DOMAIN cands : Cardinality(CallsOf("primary", i)) <= 1
    /\ Cardinality(PrimaryCalls) <= Len(cands)

\* C29: a run of evolve tries each ranked candidate at most once, so it makes
\* no more primary run_plugin calls than there are ranked candidates, and
\* when it has ended it has ended in exactly one of the outcomes accepted,
\* exhausted and no-candidates.
C29_EndsInOneOutcome ==
    /\ TriedAtMostOnce
    /\ Ended /\ Len(argv) >= 1 =>
          Cardinality({ o \in {"accepted", "exhausted", "no-candidates"} :
                          \/ o = "accepted" /\ OutcomeAccepted
                          \/ o = "exhausted" /\ OutcomeExhausted
                          \/ o = "no-candidates" /\ OutcomeNoCandidates }) = 1

\* C30: whatever the children of a run reply, a run of evolve that has ended
\* has ended with exit code 0 or 1 and with its outcome printed; no reply
\* makes it end without one.
C30_AlwaysEndsWithPrintedOutcome ==
    Ended /\ Len(argv) >= 1 =>
        /\ rc \in {0, 1}
        /\ Len(stdout) = 1
        /\ Doc.status \in {"ok", "failed"}

====
